---- MODULE Spec2Model ----
(***************************************************************************)
(* Verification of TAFs against METARs: the sectioner, the matcher and     *)
(* the plain reliability table of standard_verification/rt.py, with the    *)
(* component attributes set by extract.py and the configuration of         *)
(* update_configs.py.                                                      *)
(*                                                                         *)
(* Times are counted from the start of the TAF in units of which there are *)
(* `hour` to the hour: whole hours where hour = 1, half hours where        *)
(* hour = 2; the windows of the components begin and end on the hour.      *)
(* Probabilities of the plain table are in tenths (0.3 -> 3, 1.0 -> 10):   *)
(* the sums the matcher forms from 0.3, 0.4 and 1.0 compare with 1.0 in    *)
(* floating point as the tenths do with 10. Probabilities of the           *)
(* uncertainty table are exact fractions, and twentieths once rounded.     *)
(***************************************************************************)
EXTENDS Integers, Sequences, FiniteSets, TLC

\* ------------------------------------------------------------------ bounds
MaxMetars == 3
MaxTafComps == 2

\* --------------------------------------------------------- configuration
MetarsPerHour == 2
One == 10
Prob30 == 3
Prob40 == 4

\* probbins = Problist([0.0, 0.3, 0.4, 0.6, 0.7, 1.0]), in tenths
probbins == <<0, 3, 4, 6, 7, 10>>

\* probbins_uncertainty = Problist([0.00, 0.05, ..., 1.00]), in twentieths
probbins_uncertainty == [b \in 1..21 |-> b - 1]

\* an index that gives the nearest bin where no bin is within 0.001 of prob
ProblistIndexNearest(bins, prob) ==
    LET hits == {i \in 1..Len(bins) :
                    \A j \in 1..Len(bins) :
                        (IF bins[i] < prob THEN prob - bins[i] ELSE bins[i] - prob)
                            <= (IF bins[j] < prob THEN prob - bins[j] ELSE bins[j] - prob)}
    IN CHOOSE i \in hits : \A j \in hits : i <= j

\* Problist.index: the first bin within 0.001 of prob, 0 when there is none
\* (ValueError); bins are 1-based here, bin 1 is probability 0.0
ProblistIndex(bins, prob) ==
    LET hits == {i \in 1..Len(bins) : bins[i] = prob}
    IN IF hits = {} THEN 0 ELSE CHOOSE i \in hits : \A j \in hits : i <= j

\* the thresholds of the categories and the unbounded upper bound
Thresh == <<1, 3>>
Inf == 9999

\* a from_thresh whose categories after the first begin one above the
\* threshold below them
from_thresh_gapped(thresh) ==
    [i \in 1..(Len(thresh) + 1) |->
        [lbound |-> IF i = 1 THEN 0 ELSE thresh[i - 1] + 1,
         ubound |-> IF i = Len(thresh) + 1 THEN Inf ELSE thresh[i]]]

\* Category.from_thresh
from_thresh(thresh) ==
    [i \in 1..(Len(thresh) + 1) |->
        [lbound |-> IF i = 1 THEN 0 ELSE thresh[i - 1],
         ubound |-> IF i = Len(thresh) + 1 THEN Inf ELSE thresh[i]]]

cats == from_thresh(Thresh)

\* Category.__eq__
CategoryEq(c, val) ==
    IF val = Inf /\ c.ubound = Inf THEN TRUE
    ELSE c.lbound <= val /\ val < c.ubound

\* cats.index(val), 0-based as in the source
CatOf(val) ==
    (CHOOSE i \in 1..Len(cats) :
        CategoryEq(cats[i], val) /\ \A j \in 1..(i - 1) : ~CategoryEq(cats[j], val)) - 1

CatIds == 0..(Len(cats) - 1)

\* ------------------------------------------------------------ components
\* a prob that gives the PROB groups a half
ProbHalf(change_type) ==
    IF change_type \in {"INIT", "FM", "TEMPO", "BECMG"} THEN One
    ELSE One \div 2

\* TAFComp.prob
Prob(change_type) ==
    IF change_type \in {"INIT", "FM", "TEMPO", "BECMG"} THEN One
    ELSE IF change_type \in {"PROB30", "PROB30 TEMPO"} THEN Prob30
    ELSE Prob40

EndsWithTempo(change_type) == change_type \in {"TEMPO", "PROB30 TEMPO", "PROB40 TEMPO"}

\* get_taf_comps: the attributes given to every component after extraction
\* (metars_per_hour*length is even, so the halving for TEMPO is exact)
NewTafComp(change_type, start_dt, end_dt, value) ==
    LET length == end_dt - start_dt
        expected == MetarsPerHour * length
    IN [change_type |-> change_type, start_dt |-> start_dt, end_dt |-> end_dt,
        value |-> value, cat |-> CatOf(value), prob |-> Prob(change_type),
        matched_metars |-> 0, exact_matched_metars |-> 0,
        remaining_metars |-> expected,
        min_matches |-> IF change_type \in {"INIT", "FM"} THEN 0
                        ELSE IF EndsWithTempo(change_type) THEN 1
                        ELSE IF change_type = "BECMG" THEN 1
                        ELSE expected,
        max_matches |-> IF EndsWithTempo(change_type) THEN expected \div 2
                        ELSE expected,
        req_matches_in_section |-> 0]

\* a METAR component as extracted: no match yet
NewMetarComp(id, issue_dt, value, origin) ==
    [id |-> id, issue_dt |-> issue_dt, value |-> value, cat |-> CatOf(value),
     issue_origin |-> origin, prob |-> 0, match |-> <<>>, matched_groups |-> <<>>]

\* --------------------------------------------------------------- helpers
Range(s) == {s[i] : i \in 1..Len(s)}

Abs(x) == IF x < 0 THEN 0 - x ELSE x

RECURSIVE SumProbs(_)
SumProbs(match) == IF match = <<>> THEN 0 ELSE Head(match)[2] + SumProbs(Tail(match))

\* keys are pairs, compared as Python compares tuples
KeyLeq(k1, k2) == k1[1] < k2[1] \/ (k1[1] = k2[1] /\ k1[2] <= k2[2])

\* list.sort / sorted with a key: stable, ascending. keys[i] is the key of items[i]
RECURSIVE InsertByKey(_, _, _, _)
InsertByKey(items, keys, x, k) ==
    IF items = <<>> THEN <<<<x>>, <<k>>>>
    ELSE IF KeyLeq(keys[Len(keys)], k) THEN <<Append(items, x), Append(keys, k)>>
    ELSE LET r == InsertByKey(SubSeq(items, 1, Len(items) - 1),
                              SubSeq(keys, 1, Len(keys) - 1), x, k)
         IN <<Append(r[1], items[Len(items)]), Append(r[2], keys[Len(keys)])>>

RECURSIVE SortPairs(_, _)
SortPairs(items, keys) ==
    IF items = <<>> THEN <<<<>>, <<>>>>
    ELSE LET n == Len(items)
             r == SortPairs(SubSeq(items, 1, n - 1), SubSeq(keys, 1, n - 1))
         IN InsertByKey(r[1], r[2], items[n], keys[n])

SortByKeys(items, keys) == SortPairs(items, keys)[1]

\* [x for x in items if Keep(x)] for a set of kept elements
RECURSIVE Filter(_, _)
Filter(items, keep) ==
    IF items = <<>> THEN <<>>
    ELSE IF Head(items) \in keep THEN <<Head(items)>> \o Filter(Tail(items), keep)
    ELSE Filter(Tail(items), keep)

\* ------------------------------------------------------------ match_pair
\* a chain that asks for force_match before it looks for a METAR between the
\* component and main
RuleOfForceFirst(metar_comp, taf_comp, main_cat, is_min, is_max, force_match) ==
    IF taf_comp.req_matches_in_section = 1
       /\ taf_comp.exact_matched_metars = 0
       /\ taf_comp.remaining_metars = 0 THEN 1
    ELSE IF metar_comp.cat >= taf_comp.cat /\ is_min
       /\ taf_comp.exact_matched_metars = 0
       /\ taf_comp.remaining_metars = 0 THEN 2
    ELSE IF metar_comp.cat <= taf_comp.cat /\ is_max
       /\ taf_comp.exact_matched_metars = 0
       /\ taf_comp.remaining_metars = 0 THEN 3
    ELSE IF main_cat > taf_comp.cat /\ metar_comp.cat >= main_cat /\ force_match THEN 5
    ELSE IF taf_comp.cat > main_cat /\ metar_comp.cat <= main_cat /\ force_match THEN 6
    ELSE IF force_match THEN 7
    ELSE IF (metar_comp.cat - taf_comp.cat) * (metar_comp.cat - main_cat) < 0 THEN 4
    ELSE IF Abs(metar_comp.cat - taf_comp.cat) < Abs(metar_comp.cat - main_cat) THEN 8
    ELSE 9

\* the branch of the if/elif chain of match_pair that is taken (1..9),
\* once the three guards have passed
RuleOf(metar_comp, taf_comp, main_cat, is_min, is_max, force_match) ==
    LET taf_comp_below_main == main_cat > taf_comp.cat
        taf_comp_above_main == taf_comp.cat > main_cat
    IN IF taf_comp.req_matches_in_section = 1
          /\ taf_comp.exact_matched_metars = 0
          /\ taf_comp.remaining_metars = 0 THEN 1
       ELSE IF metar_comp.cat >= taf_comp.cat /\ is_min
          /\ taf_comp.exact_matched_metars = 0
          /\ taf_comp.remaining_metars = 0 THEN 2
       ELSE IF metar_comp.cat <= taf_comp.cat /\ is_max
          /\ taf_comp.exact_matched_metars = 0
          /\ taf_comp.remaining_metars = 0 THEN 3
       ELSE IF (metar_comp.cat - taf_comp.cat) * (metar_comp.cat - main_cat) < 0 THEN 4
       ELSE IF taf_comp_below_main /\ metar_comp.cat >= main_cat /\ force_match THEN 5
       ELSE IF taf_comp_above_main /\ metar_comp.cat <= main_cat /\ force_match THEN 6
       ELSE IF force_match THEN 7
       ELSE IF Abs(metar_comp.cat - taf_comp.cat) < Abs(metar_comp.cat - main_cat) THEN 8
       ELSE 9

\* an fc_cat that is the main category where the METAR lies beyond main
FcCatAtMain(rule, metar_comp, taf_comp, main_cat) ==
    IF rule = 4 THEN metar_comp.cat
    ELSE IF rule = 5 \/ rule = 6 THEN main_cat
    ELSE taf_comp.cat

\* fc_cat of the branch taken
FcCat(rule, metar_comp, taf_comp, main_cat) ==
    IF rule = 4 THEN metar_comp.cat
    ELSE IF rule = 5 THEN main_cat - 1
    ELSE IF rule = 6 THEN main_cat + 1
    ELSE taf_comp.cat

\* guards that let a component past its quota
GuardsPassNoQuota(metar_comp, taf_comp, tid) ==
    /\ ~(metar_comp.prob >= One)
    /\ ~(tid \in Range(metar_comp.matched_groups))

\* the three guards of match_pair
GuardsPass(metar_comp, taf_comp, tid) ==
    /\ ~(taf_comp.matched_metars >= taf_comp.max_matches)
    /\ ~(metar_comp.prob >= One)
    /\ ~(tid \in Range(metar_comp.matched_groups))

\* an allocation that is never cut to what the METAR has left
MatchedProbUncut(metar_comp, taf_comp) ==
    taf_comp.prob

\* the probability match_pair allocates
MatchedProb(metar_comp, taf_comp) ==
    IF metar_comp.prob + taf_comp.prob > One THEN One - metar_comp.prob
    ELSE taf_comp.prob

\* the METAR component after a successful match
MetarMatched(metar_comp, tid, fc_cat, matched_prob) ==
    [metar_comp EXCEPT !.matched_groups = Append(@, tid),
                       !.match = Append(@, <<fc_cat, matched_prob>>),
                       !.prob = @ + matched_prob]

\* the TAF component after a successful match
TafMatched(taf_comp, fc_cat) ==
    [taf_comp EXCEPT !.matched_metars = @ + 1,
                     !.req_matches_in_section =
                         taf_comp.min_matches - (taf_comp.matched_metars + 1)
                         - taf_comp.remaining_metars,
                     !.exact_matched_metars =
                         IF taf_comp.cat = fc_cat THEN @ + 1 ELSE @]

\* a match_pair that updates its two objects before it decides on the match
match_pair_eager(metar_comp, taf_comp, tid, main_cat, is_min, is_max, force_match) ==
    LET rule == RuleOf(metar_comp, taf_comp, main_cat, is_min, is_max, force_match)
        fc_cat == FcCat(rule, metar_comp, taf_comp, main_cat)
        matched_prob == MatchedProb(metar_comp, taf_comp)
    IN [matched |-> GuardsPass(metar_comp, taf_comp, tid) /\ rule # 9,
        rule |-> rule, fc_cat |-> fc_cat, matched_prob |-> matched_prob,
        metar_comp |-> MetarMatched(metar_comp, tid, fc_cat, matched_prob),
        taf_comp |-> TafMatched(taf_comp, fc_cat)]

\* match_pair: tid is the identity of taf_comp, is_min / is_max say whether
\* metar_comp is min_metar / max_metar. The result holds the return value and
\* the two objects as the call leaves them.
match_pair(metar_comp, taf_comp, tid, main_cat, is_min, is_max, force_match) ==
    LET unmatched == [matched |-> FALSE, rule |-> 0, fc_cat |-> 0, matched_prob |-> 0,
                      metar_comp |-> metar_comp, taf_comp |-> taf_comp]
    IN IF ~GuardsPass(metar_comp, taf_comp, tid) THEN unmatched
       ELSE LET rule == RuleOf(metar_comp, taf_comp, main_cat, is_min, is_max, force_match)
                fc_cat == FcCat(rule, metar_comp, taf_comp, main_cat)
                matched_prob == MatchedProb(metar_comp, taf_comp)
            IN IF rule = 9 THEN [unmatched EXCEPT !.rule = 9]
               ELSE IF matched_prob > 0
               THEN [matched |-> TRUE, rule |-> rule, fc_cat |-> fc_cat,
                     matched_prob |-> matched_prob,
                     metar_comp |-> MetarMatched(metar_comp, tid, fc_cat, matched_prob),
                     taf_comp |-> TafMatched(taf_comp, fc_cat)]
               ELSE [unmatched EXCEPT !.rule = rule]

\* ---------------------------------------------------------- match_section
\* The objects of one section while match_section runs: m maps the identity
\* of a METAR to its fields, t the identity of a TAF component to its fields,
\* order is the local list metar_comps, log records every successful
\* match_pair with the phase of match_section that made the call.
Record(st, mid, tid, r, phase) ==
    [st EXCEPT !.m[mid] = r.metar_comp,
               !.t[tid] = r.taf_comp,
               !.log = IF r.matched
                       THEN Append(@, [metar |-> mid, comp |-> tid, rule |-> r.rule,
                                       fc_cat |-> r.fc_cat,
                                       matched_prob |-> r.matched_prob,
                                       prob_before |-> st.m[mid].prob,
                                       comp_prob |-> st.t[tid].prob,
                                       phase |-> phase])
                       ELSE @]

Call(st, mid, tid, ctx, force_match, phase) ==
    Record(st, mid, tid,
           match_pair(st.m[mid], st.t[tid], tid, ctx.main_cat,
                      mid = ctx.min_metar, mid = ctx.max_metar, force_match),
           phase)

\* the condition under which a loop of match_section calls match_pair
Gate(st, mid, tid, gate) ==
    LET metar_comp == st.m[mid]
        taf_comp == st.t[tid]
    IN CASE gate = "all" -> TRUE
         [] gate = "below_req" -> taf_comp.req_matches_in_section > 0
                                  /\ metar_comp.value < taf_comp.value
         [] gate = "above_req" -> taf_comp.req_matches_in_section > 0
                                  /\ metar_comp.value > taf_comp.value
         [] gate = "quota" -> \/ taf_comp.req_matches_in_section > 0
                              \/ (taf_comp.min_matches > 0
                                  /\ taf_comp.exact_matched_metars = 0
                                  /\ taf_comp.remaining_metars = 0)
         [] gate = "below" -> metar_comp.value < taf_comp.value
         [] gate = "above" -> metar_comp.value > taf_comp.value

\* for metar_comp in ms: if <gate>: match_pair(metar_comp, taf_comp, ...)
RECURSIVE LoopMetars(_, _, _, _, _, _)
LoopMetars(st, ms, tid, gate, ctx, phase) ==
    IF ms = <<>> THEN st
    ELSE LoopMetars(IF Gate(st, Head(ms), tid, gate)
                    THEN Call(st, Head(ms), tid, ctx, TRUE, phase) ELSE st,
                    Tail(ms), tid, gate, ctx, phase)

\* metar_comps.sort(key=lambda x: (x.value, x.issue_dt))
SortValueAsc(st) ==
    SortByKeys(st.order, [i \in 1..Len(st.order) |->
        <<st.m[st.order[i]].value, st.m[st.order[i]].issue_dt>>])

\* metar_comps.sort(key=lambda x: (-x.value, x.issue_dt))
SortValueDesc(st) ==
    SortByKeys(st.order, [i \in 1..Len(st.order) |->
        <<0 - st.m[st.order[i]].value, st.m[st.order[i]].issue_dt>>])

\* sorted(zip(catdiffs, valdiffs, metar_comps), key=lambda x: (x[0], x[1]))
SortByDiff(st, tid) ==
    SortByKeys(st.order, [i \in 1..Len(st.order) |->
        <<Abs(st.m[st.order[i]].cat - st.t[tid].cat),
          Abs(st.m[st.order[i]].value - st.t[tid].value)>>])

\* the METARs in the category of the component, nearest value first
ExactMetars(st, tid) ==
    LET exact == Filter(st.order, {mid \in Range(st.order) : st.m[mid].cat = st.t[tid].cat})
    IN SortByKeys(exact, [i \in 1..Len(exact) |->
           <<Abs(st.m[exact[i]].value - st.t[tid].value), 0>>])

\* taf_comps_to_match.sort(key=lambda x: x.value), or -x.value
SortTafs(st, ts, descending) ==
    SortByKeys(ts, [i \in 1..Len(ts) |->
        <<IF descending THEN 0 - st.t[ts[i]].value ELSE st.t[ts[i]].value, 0>>])

\* the loop over taf_comps that force-matches a component to every METAR
\* when it requires at least as many matches as there are METARs, and
\* defers it otherwise; the result is the state and taf_comps_to_match
RECURSIVE ForceOrDefer(_, _, _, _)
ForceOrDefer(st, ts, deferred, ctx) ==
    IF ts = <<>> THEN [st |-> st, taf_comps_to_match |-> deferred]
    ELSE IF st.t[Head(ts)].req_matches_in_section >= Len(st.order)
         THEN ForceOrDefer(LoopMetars(st, st.order, Head(ts), "all", ctx, "force"),
                           Tail(ts), deferred, ctx)
         ELSE ForceOrDefer(st, Tail(ts), Append(deferred, Head(ts)), ctx)

\* the section with the list metar_comps sorted in place
SortedAsc(st) == [st EXCEPT !.order = SortValueAsc(st)]
SortedDesc(st) == [st EXCEPT !.order = SortValueDesc(st)]
SortedByDiff(st, tid) == [st EXCEPT !.order = SortByDiff(st, tid)]

\* for metar_comp in metar_comps: ...
LoopOrder(st, tid, gate, ctx, phase) == LoopMetars(st, st.order, tid, gate, ctx, phase)

\* first loop of a pass: the closest METARs to each component
RECURSIVE PassClosest(_, _, _, _, _)
PassClosest(st, ts, prob_limit, ctx, phase) ==
    IF ts = <<>> THEN st
    ELSE IF st.t[Head(ts)].prob > prob_limit
         THEN PassClosest(st, Tail(ts), prob_limit, ctx, phase)
         ELSE PassClosest(LoopOrder(SortedByDiff(st, Head(ts)), Head(ts), "quota", ctx, phase),
                          Tail(ts), prob_limit, ctx, phase)

\* second and third loop of a pass: the METARs below min_taf_comp and the
\* METARs above max_taf_comp
\* the loop below min_taf_comp run whatever the component's probability
PassBelowAnyProb(st, min_taf_comp, prob_limit, ctx, phase) ==
    LoopOrder(SortedAsc(st), min_taf_comp, "below", ctx, phase)

PassBelow(st, min_taf_comp, prob_limit, ctx, phase) ==
    IF st.t[min_taf_comp].prob <= prob_limit
    THEN LoopOrder(SortedAsc(st), min_taf_comp, "below", ctx, phase)
    ELSE st

PassAbove(st, max_taf_comp, prob_limit, ctx, phase) ==
    IF st.t[max_taf_comp].prob <= prob_limit
    THEN LoopOrder(SortedDesc(st), max_taf_comp, "above", ctx, phase)
    ELSE st

\* last loop of a pass: the METARs in the category of each component
RECURSIVE PassExact(_, _, _, _, _)
PassExact(st, ts, prob_limit, ctx, phase) ==
    IF ts = <<>> THEN st
    ELSE IF st.t[Head(ts)].prob > prob_limit
         THEN PassExact(st, Tail(ts), prob_limit, ctx, phase)
         ELSE PassExact(LoopMetars(st, ExactMetars(st, Head(ts)), Head(ts), "all", ctx, phase),
                        Tail(ts), prob_limit, ctx, phase)

\* one iteration of "for prob_limit in [0.5, 1.0]"
Pass(st, ts, prob_limit, ctx, tag) ==
    PassExact(
        PassAbove(
            PassBelow(PassClosest(st, ts, prob_limit, ctx, "a" \o tag),
                      ts[1], prob_limit, ctx, "b" \o tag),
            ts[Len(ts)], prob_limit, ctx, "b" \o tag),
        ts, prob_limit, ctx, "c" \o tag)

\* the closing double loop: every METAR against every deferred component,
\* force_match=False
RECURSIVE FinalTafs(_, _, _, _)
FinalTafs(st, mid, ts, ctx) ==
    IF ts = <<>> THEN st
    ELSE FinalTafs(Call(st, mid, Head(ts), ctx, FALSE, "final"), mid, Tail(ts), ctx)

RECURSIVE FinalMetars(_, _, _, _)
FinalMetars(st, ms, ts, ctx) ==
    IF ms = <<>> THEN st
    ELSE FinalMetars(FinalTafs(st, Head(ms), ts, ctx), Tail(ms), ts, ctx)

\* "Match any remaining METARs": both lists descending when the copy of
\* main is min_taf_comp, ascending otherwise
MatchRemaining(st, ts, descending, ctx) ==
    FinalMetars(st, IF descending THEN SortValueDesc(st) ELSE SortValueAsc(st),
                SortTafs(st, ts, descending), ctx)

\* the part of match_section after taf_comps_to_match is sorted by value:
\* ts is that list, ts[1] min_taf_comp and its last element max_taf_comp
MatchDeferred(st, ts, copy_id, ctx) ==
    MatchRemaining(
        Pass(Pass(LoopOrder(SortedDesc(LoopOrder(SortedAsc(st), ts[1], "below_req", ctx, "pre")),
                            ts[Len(ts)], "above_req", ctx, "pre"),
                  ts, 5, ctx, "1"),
             ts, One, ctx, "2"),
        ts, copy_id = ts[1], ctx)

\* the part of match_section after the loop that force-matches or defers
AfterForce(forced, copy_id, ctx) ==
    IF Len(forced.taf_comps_to_match) <= 1 THEN forced.st
    ELSE MatchDeferred(forced.st, SortTafs(forced.st, forced.taf_comps_to_match, FALSE),
                       copy_id, ctx)

\* the copy of main for the section: copy.copy(main) with the attributes
\* match_section resets
MainForThisSection(main_comp, metars_in_section) ==
    [main_comp EXCEPT !.max_matches = metars_in_section,
                      !.remaining_metars = 0,
                      !.matched_metars = 0,
                      !.min_matches = 0,
                      !.req_matches_in_section = 0]

\* a TAF component at the start of a section it is valid in
TafForSection(taf_comp, metars_in_section) ==
    [taf_comp EXCEPT !.remaining_metars = @ - metars_in_section,
                     !.req_matches_in_section =
                         taf_comp.min_matches - taf_comp.matched_metars
                         - (taf_comp.remaining_metars - metars_in_section)]

\* a match_section that leaves the METARs as they come
MetarResetNone(metar_comp) == metar_comp

\* the attributes of a METAR that match_section resets
MetarReset(metar_comp) ==
    [metar_comp EXCEPT !.matched_groups = <<>>, !.match = <<>>, !.prob = 0]

\* min_metar and max_metar of the list sorted by value, and main's category
Context(metars, by_value, main_cat) ==
    [main_cat |-> main_cat,
     min_metar |-> by_value[1],
     max_metar |-> IF metars[by_value[1]].value = metars[by_value[Len(by_value)]].value
                   THEN by_value[1] ELSE by_value[Len(by_value)]]

\* the METARs reset and sorted by value
SectionStart(metar_ids, metars, tafs) ==
    SortedAsc([m |-> [mid \in Range(metar_ids) |-> MetarReset(metars[mid])],
               t |-> tafs, order |-> metar_ids, log |-> <<>>])

\* the components updated for the section, with the copy of main
SectionTafs(taf_ids, tafs, main_comp, copy_id, metars_in_section) ==
    [tid \in (DOMAIN tafs) \cup {copy_id} |->
        IF tid = copy_id THEN MainForThisSection(main_comp, metars_in_section)
        ELSE IF tid \in Range(taf_ids) THEN TafForSection(tafs[tid], metars_in_section)
        ELSE tafs[tid]]

\* taf_comps.sort(key=lambda x: x.prob); taf_comps.insert(0, main_for_this_section)
ByProb(taf_ids, tafs, copy_id) ==
    <<copy_id>> \o SortByKeys(taf_ids, [i \in 1..Len(taf_ids) |-> <<tafs[taf_ids[i]].prob, 0>>])

\* match_section once there are TAF components
MatchTafs(st, taf_ids, main_comp, copy_id, metars_in_section) ==
    AfterForce(ForceOrDefer([st EXCEPT !.t = SectionTafs(taf_ids, st.t, main_comp, copy_id,
                                                         metars_in_section)],
                            ByProb(taf_ids, st.t, copy_id), <<>>,
                            Context(st.m, st.order, main_comp.cat)),
               copy_id, Context(st.m, st.order, main_comp.cat))

\* what match_section leaves: the objects, the list taf_comps and the log
Result(st, taf_comps_after, copied) ==
    [m |-> st.m, t |-> st.t, log |-> st.log, copied |-> copied,
     taf_comps |-> taf_comps_after]

\* match_section(metar_comps, taf_comps, main, metars_in_section).
\* metar_ids / taf_ids are the two lists, metars / tafs the objects by
\* identity, copy_id the identity of the copy of main.
match_section(metar_ids, metars, taf_ids, tafs, main_comp, copy_id, metars_in_section) ==
    IF taf_ids = <<>>
    THEN Result(SectionStart(metar_ids, metars, tafs), taf_ids, FALSE)
    ELSE Result(MatchTafs(SectionStart(metar_ids, metars, tafs), taf_ids, main_comp,
                          copy_id, metars_in_section),
                ByProb(taf_ids, tafs, copy_id), TRUE)

\* -------------------------------------------------------------- the TAF
VARIABLES
    init_comp,            \* TAF.init_comp
    taf_comps,            \* TAF.taf_comps, the change groups in extraction order
    metar_comps,          \* TAF.metar_comps
    obs,                  \* TAF.obs, the plain reliability table
    pc,                   \* where construct_rt stands
    err,                  \* the exception construct_rt raised, "" when none
    g_i,                  \* sections: index of the METAR the loop stands at
    g_final,              \* sections: whether the loop has ended (the final yield)
    pair_call,            \* the arguments of one call of match_pair taken alone
    pair_return,          \* what that call returned and left of its two objects
    main,                 \* sections: identity of the main component
    section_start,        \* sections: section_start
    section_metar_comps,  \* sections: identities of the METARs of the section
    valid_comps_prev,     \* sections: the list yielded as active components
    valid_comps,          \* sections: the active components of the next METAR
    change_dt,            \* sections: change_dt
    section_length,       \* sections: section_length of the section yielded
    main_for_this_section,\* the copy of main made by the last match_section
    yielded,              \* every section yielded so far
    matchlog,             \* the successful match_pair calls of the last match_section
    hour,                 \* the number of time units to the hour
    method,               \* the method of TAF that runs: "rt" or "uncertainty"
    obs_uncertainty,      \* TAF.obs_uncertainty, the uncertainty reliability table
    driver,               \* main: the lists this TAF was appended to
    extracted,            \* the METARs as match_components added them to the TAF
    probs_call,           \* the arguments of one computation of probabilities taken alone
    probs_return,         \* the lists that computation made
    thresh_call,          \* the thresholds of one call of Category.from_thresh
    thresh_return         \* the categories that call returned

vars == <<init_comp, taf_comps, metar_comps, obs, pc, err, g_i, g_final, main,
          section_start, section_metar_comps, valid_comps_prev, valid_comps, change_dt,
          section_length, main_for_this_section, yielded, matchlog, pair_call,
          pair_return, hour, method, obs_uncertainty, driver, extracted, probs_call,
          probs_return, thresh_call, thresh_return>>

pair_vars == <<pair_call, pair_return>>

driver_vars == <<hour, method, obs_uncertainty, driver, extracted>>

fn_vars == <<probs_call, probs_return, thresh_call, thresh_return>>

gen_vars == <<g_i, g_final, main, section_start, section_metar_comps, valid_comps_prev,
              valid_comps, change_dt, section_length, yielded>>

\* args.ver_period, in hours
VerPeriod == 3

\* identities of components: 0 is init_comp, k is taf_comps[k], and the copy
\* of main made by match_section is one more than the last of them
InitId == 0
CopyId == Len(taf_comps) + 1

Comp(id) ==
    IF id = InitId THEN init_comp
    ELSE IF id = CopyId THEN main_for_this_section
    ELSE taf_comps[id]

\* a validity test that leaves out the end of a component's window
valid_taf_components_open(metar_comp) ==
    Filter([k \in 1..Len(taf_comps) |-> k],
           {k \in 1..Len(taf_comps) :
                taf_comps[k].start_dt <= metar_comp.issue_dt
                /\ metar_comp.issue_dt < taf_comps[k].end_dt})

\* TAF.valid_taf_components
valid_taf_components(metar_comp) ==
    Filter([k \in 1..Len(taf_comps) |-> k],
           {k \in 1..Len(taf_comps) :
                taf_comps[k].start_dt <= metar_comp.issue_dt
                /\ metar_comp.issue_dt <= taf_comps[k].end_dt})

\* a remove_duplicates that keeps every METAR
remove_duplicates_none(metars, kept) == metars

\* TAF.remove_duplicates: the first METAR of each issue time is kept
\* (station and parameter are those of the TAF)
RECURSIVE remove_duplicates(_, _)
remove_duplicates(metars, kept) ==
    IF metars = <<>> THEN kept
    ELSE IF \E i \in 1..Len(kept) : kept[i].issue_dt = Head(metars).issue_dt
         THEN remove_duplicates(Tail(metars), kept)
         ELSE remove_duplicates(Tail(metars), Append(kept, Head(metars)))

\* checks that take a gap of two hours for one of more than two hours
CoverageErrorFromTwoHours(metars) ==
    IF metars = <<>> THEN "TAFNoMETARsError"
    ELSE IF \E i \in 1..Len(metars) :
               metars[i].issue_dt
               - (IF i = 1 THEN init_comp.start_dt ELSE metars[i - 1].issue_dt) >= 2 * hour
         THEN "TAFTwoHourMETARGapError"
    ELSE IF init_comp.end_dt - metars[Len(metars)].issue_dt > hour
         THEN "TAFNoLastHrMETARsError"
    ELSE ""

\* the checks sections makes before its first section: "" when they pass
CoverageError(metars) ==
    IF metars = <<>> THEN "TAFNoMETARsError"
    ELSE IF \E i \in 1..Len(metars) :
               metars[i].issue_dt
               - (IF i = 1 THEN init_comp.start_dt ELSE metars[i - 1].issue_dt) > 2 * hour
         THEN "TAFTwoHourMETARGapError"
    ELSE IF init_comp.end_dt - metars[Len(metars)].issue_dt > hour
         THEN "TAFNoLastHrMETARsError"
    ELSE ""

\* the loop of sections from the METAR at index i (1-based) to the next
\* yield: the values of the generator's variables at that yield
RECURSIVE RunLoop(_, _, _, _)
RunLoop(metars, i, smc, vcp) ==
    IF i > Len(metars) \/ metars[i].issue_dt > init_comp.start_dt + VerPeriod * hour
    THEN [final |-> TRUE, i |-> i, section_metar_comps |-> smc,
          valid_comps_prev |-> vcp, valid_comps |-> <<>>, change_dt |-> init_comp.end_dt]
    ELSE IF i = 1
    THEN RunLoop(metars, i + 1, <<metars[i].id>>, valid_taf_components(metars[i]))
    ELSE LET vc == valid_taf_components(metars[i])
         IN IF vc = vcp
            THEN RunLoop(metars, i + 1, Append(smc, metars[i].id), vcp)
            ELSE LET ending_changes == Filter(vcp, Range(vcp) \ Range(vc))
                     starting_changes == Filter(vc, Range(vc) \ Range(vcp))
                 IN [final |-> FALSE, i |-> i, section_metar_comps |-> smc,
                     valid_comps_prev |-> vcp, valid_comps |-> vc,
                     change_dt |-> IF starting_changes # <<>>
                                   THEN taf_comps[starting_changes[1]].start_dt
                                   ELSE taf_comps[ending_changes[1]].end_dt]

\* an update of main that takes the last component ending at change_dt,
\* whatever its change type
RECURSIVE MainAfterAnyType(_, _)
MainAfterAnyType(comps, m) ==
    IF comps = <<>> THEN m
    ELSE MainAfterAnyType(Tail(comps),
                          IF Comp(Head(comps)).end_dt = change_dt
                          THEN Head(comps) ELSE m)

\* an update of main that takes the last BECMG component, wherever it ends
RECURSIVE MainAfterAnyEnd(_, _)
MainAfterAnyEnd(comps, m) ==
    IF comps = <<>> THEN m
    ELSE MainAfterAnyEnd(Tail(comps),
                         IF Comp(Head(comps)).change_type = "BECMG"
                         THEN Head(comps) ELSE m)

\* the statements of sections after a yield inside the loop: main becomes
\* the last BECMG component of the yielded list that ends at change_dt
RECURSIVE MainAfter(_, _)
MainAfter(comps, m) ==
    IF comps = <<>> THEN m
    ELSE MainAfter(Tail(comps),
                   IF Comp(Head(comps)).change_type = "BECMG"
                      /\ Comp(Head(comps)).end_dt = change_dt
                   THEN Head(comps) ELSE m)

\* ----------------------------------------------------------- construct_rt
MetarById(id) == metar_comps[CHOOSE i \in 1..Len(metar_comps) : metar_comps[i].id = id]

\* metar_comps.sort(key=lambda x: x.issue_dt) on the METARs of the section
ByIssueDt(ids) ==
    SortByKeys(ids, [i \in 1..Len(ids) |-> <<MetarById(ids[i]).issue_dt, 0>>])

\* self.obs[fc_cat, cat, prob_ind] += 1 (bins are 1-based here)
Inc(table, fc_cat, cat, prob_ind) ==
    [table EXCEPT ![fc_cat][cat][prob_ind] = @ + 1]

\* a construct_rt that leaves the unallocated probability out
WithRemainderDropped(metar_comp, main_cat) ==
    metar_comp

\* the remainder given to the main category
WithRemainder(metar_comp, main_cat) ==
    IF metar_comp.prob < One
    THEN [metar_comp EXCEPT !.match = Append(@, <<main_cat, One - metar_comp.prob>>)]
    ELSE metar_comp

\* "for fc_cat, prob in metar_comp.match": the table after the entries, and
\* whether a probability had no bin (the entries before it stay counted)
RECURSIVE CountMatches(_, _, _)
CountMatches(table, entries, cat) ==
    IF entries = <<>> THEN [obs |-> table, failed |-> FALSE]
    ELSE LET prob_ind == ProblistIndex(probbins, Head(entries)[2])
         IN IF prob_ind = 0 THEN [obs |-> table, failed |-> TRUE]
            ELSE CountMatches(Inc(table, Head(entries)[1], cat, prob_ind),
                              Tail(entries), cat)

\* a backfill that counts the zero bin of every category, matched or not
RECURSIVE BackfillAll(_, _, _, _)
BackfillAll(table, i, fc_cats, cat) ==
    IF i > Len(cats) - 1 THEN table
    ELSE BackfillAll(Inc(table, i, cat, 1), i + 1, fc_cats, cat)

\* "for i, cat in enumerate(self.cats): if i not in fc_cats": the zero bin
RECURSIVE Backfill(_, _, _, _)
Backfill(table, i, fc_cats, cat) ==
    IF i > Len(cats) - 1 THEN table
    ELSE Backfill(IF i \in fc_cats THEN table ELSE Inc(table, i, cat, 1),
                  i + 1, fc_cats, cat)

\* the loop of construct_rt over the METARs of a section, in issue order
RECURSIVE Populate(_, _, _, _)
Populate(table, ids, metars, main_cat) ==
    IF ids = <<>> THEN [obs |-> table, failed |-> FALSE, m |-> metars]
    ELSE LET metar_comp == WithRemainder(metars[Head(ids)], main_cat)
             counted == CountMatches(table, metar_comp.match, metar_comp.cat)
             after == [metars EXCEPT ![Head(ids)] = metar_comp]
         IN IF counted.failed THEN [obs |-> counted.obs, failed |-> TRUE, m |-> after]
            ELSE Populate(Backfill(counted.obs, 0,
                                   {metar_comp.match[k][1] : k \in 1..Len(metar_comp.match)},
                                   metar_comp.cat),
                          Tail(ids), after, main_cat)

ZeroTable == [i \in CatIds |-> [j \in CatIds |-> [b \in 1..Len(probbins) |-> 0]]]

ZeroTableUncertainty ==
    [i \in CatIds |-> [j \in CatIds |-> [b \in 1..Len(probbins_uncertainty) |-> 0]]]

\* construct_rt up to its loop: the length of the TAF is checked
ConstructRt ==
    /\ pc = "new"
    /\ method = "rt"
    /\ UNCHANGED <<pair_vars, driver_vars, fn_vars>>
    /\ IF init_comp.end_dt - init_comp.start_dt # VerPeriod * hour
       THEN pc' = "rejected" /\ err' = "TAFWrongLengthError"
       ELSE pc' = "iterating" /\ err' = ""
    /\ UNCHANGED <<init_comp, taf_comps, metar_comps, obs, gen_vars,
                   main_for_this_section, matchlog>>

\* the generator runs from i to its next yield, or to its end (the windows of
\* the components begin and end on the hour, so a section is whole hours long)
Advance(metars, i, smc, vcp) ==
    LET y == RunLoop(metars, i, smc, vcp)
    IN /\ g_i' = y.i
       /\ g_final' = y.final
       /\ section_metar_comps' = y.section_metar_comps
       /\ valid_comps_prev' = y.valid_comps_prev
       /\ valid_comps' = y.valid_comps
       /\ change_dt' = y.change_dt
       /\ IF y.final /\ y.section_metar_comps = <<>>
          THEN /\ pc' = "done"
               /\ UNCHANGED <<section_length, yielded>>
          ELSE /\ pc' = "yielded"
               /\ section_length' = (y.change_dt - section_start') \div hour
               /\ yielded' = Append(yielded,
                      [metar_comps |-> y.section_metar_comps,
                       taf_comps |-> y.valid_comps_prev,
                       main |-> main', start |-> section_start',
                       change_dt |-> y.change_dt,
                       length |-> (y.change_dt - section_start') \div hour])

\* first next() on TAF.sections: the coverage checks, remove_duplicates and
\* the loop up to the first yield
SectionsFirst ==
    /\ pc = "iterating"
    /\ UNCHANGED <<pair_vars, driver_vars, fn_vars>>
    /\ LET e == CoverageError(metar_comps)
           metars == remove_duplicates(metar_comps, <<>>)
       IN IF e # ""
          THEN /\ pc' = "rejected" /\ err' = e
               /\ UNCHANGED <<metar_comps, gen_vars>>
          ELSE /\ metar_comps' = metars
               /\ main' = InitId
               /\ section_start' = init_comp.start_dt
               /\ err' = ""
               /\ Advance(metars, 1, <<>>, <<>>)
    /\ UNCHANGED <<init_comp, taf_comps, obs, main_for_this_section, matchlog>>

\* the body of the loop of construct_rt, first statement: match_section on
\* the section just yielded
MatchSection ==
    /\ pc = "yielded"
    /\ method = "rt"
    /\ UNCHANGED <<pair_vars, driver_vars, fn_vars>>
    /\ \E r \in {match_section(section_metar_comps,
                               [id \in Range(section_metar_comps) |-> MetarById(id)],
                               valid_comps_prev, taf_comps, Comp(main), CopyId,
                               MetarsPerHour * section_length)} :
          /\ taf_comps' = [k \in 1..Len(taf_comps) |-> r.t[k]]
          /\ main_for_this_section' = IF r.copied THEN r.t[CopyId]
                                      ELSE main_for_this_section
          /\ valid_comps_prev' = r.taf_comps
          /\ matchlog' = r.log
          /\ metar_comps' = [i \in 1..Len(metar_comps) |->
                                IF metar_comps[i].id \in Range(section_metar_comps)
                                THEN r.m[metar_comps[i].id] ELSE metar_comps[i]]
    /\ pc' = "section_matched"
    /\ UNCHANGED <<init_comp, obs, err, g_i, g_final, main, section_start,
                   section_metar_comps, valid_comps, change_dt, section_length, yielded>>

\* the body of the loop of construct_rt, the rest: the remainder of every
\* METAR of the section goes to main and the table is populated
PopulateTable ==
    /\ pc = "section_matched"
    /\ method = "rt"
    /\ UNCHANGED <<pair_vars, driver_vars, fn_vars>>
    /\ \E p \in {Populate(obs, ByIssueDt(section_metar_comps),
                          [id \in Range(section_metar_comps) |-> MetarById(id)],
                          Comp(main).cat)} :
          /\ metar_comps' = [i \in 1..Len(metar_comps) |->
                                IF metar_comps[i].id \in Range(section_metar_comps)
                                THEN p.m[metar_comps[i].id] ELSE metar_comps[i]]
          /\ obs' = p.obs
          /\ IF p.failed
             THEN pc' = "rejected" /\ err' = "TAFTooComplexError"
             ELSE pc' = "populated" /\ err' = ""
    /\ UNCHANGED <<init_comp, taf_comps, gen_vars, main_for_this_section, matchlog>>

\* a generator whose next section begins at its first METAR
SectionsResumeAtMetar ==
    /\ pc = "populated"
    /\ UNCHANGED <<pair_vars, driver_vars, fn_vars>>
    /\ ~g_final
    /\ main' = MainAfter(valid_comps_prev, main)
    /\ section_start' = metar_comps[g_i].issue_dt
    /\ Advance(metar_comps, g_i + 1, <<metar_comps[g_i].id>>, valid_comps)
    /\ UNCHANGED <<init_comp, taf_comps, metar_comps, obs, err,
                   main_for_this_section, matchlog>>

\* next() after a section yielded inside the loop: main is updated, the
\* next section is opened and the loop goes on to the next yield
SectionsResume ==
    /\ pc = "populated"
    /\ UNCHANGED <<pair_vars, driver_vars, fn_vars>>
    /\ ~g_final
    /\ main' = MainAfter(valid_comps_prev, main)
    /\ section_start' = change_dt
    /\ Advance(metar_comps, g_i + 1, <<metar_comps[g_i].id>>, valid_comps)
    /\ UNCHANGED <<init_comp, taf_comps, metar_comps, obs, err,
                   main_for_this_section, matchlog>>

\* next() after the final section: the generator ends and so does construct_rt
SectionsEnd ==
    /\ pc = "populated"
    /\ UNCHANGED <<pair_vars, driver_vars, fn_vars>>
    /\ g_final
    /\ pc' = "done"
    /\ UNCHANGED <<init_comp, taf_comps, metar_comps, obs, err, gen_vars,
                   main_for_this_section, matchlog>>

\* ---------------------------------------------- construct_rt_uncertainty
\* a probability of the uncertainty table before rounding: an exact fraction
\* <<numerator, denominator>>; None where the source has None
None == <<>>

ContainsTempo(change_type) == change_type \in {"TEMPO", "PROB30 TEMPO", "PROB40 TEMPO"}

ContainsProb30(change_type) == change_type \in {"PROB30", "PROB30 TEMPO"}

ContainsProb40(change_type) == change_type \in {"PROB40", "PROB40 TEMPO"}

\* a fraction times 0.3 or 0.4
Scaled(tenths, frac) == <<tenths * frac[1], 10 * frac[2]>>

\* probs of construct_rt_uncertainty, for a component of n hours
probs(n, change_type, m_cat, a_cat) ==
    LET num_i_cats == Abs(m_cat - a_cat) - 1
        base_prob_a == IF num_i_cats = 0 THEN <<n + 1, 4 * n>> ELSE <<n + 3, 8 * n>>
        base_prob_i == IF num_i_cats = 0 THEN <<0, 1>> ELSE <<n - 1, 8 * n * num_i_cats>>
        raw ==
            IF m_cat = a_cat \/ change_type \in {"INIT", "FM"}
            THEN [prob_m |-> <<1, 1>>, prob_a |-> None, prob_i |-> None]
            ELSE IF ContainsTempo(change_type)
            THEN IF ContainsProb30(change_type)
                 THEN [prob_m |-> <<40 * n - Prob30 * (n + 1), 40 * n>>,
                       prob_a |-> Scaled(Prob30, base_prob_a),
                       prob_i |-> Scaled(Prob30, base_prob_i)]
                 ELSE IF ContainsProb40(change_type)
                 THEN [prob_m |-> <<40 * n - Prob40 * (n + 1), 40 * n>>,
                       prob_a |-> Scaled(Prob40, base_prob_a),
                       prob_i |-> Scaled(Prob40, base_prob_i)]
                 ELSE [prob_m |-> <<3 * n - 1, 4 * n>>,
                       prob_a |-> base_prob_a, prob_i |-> base_prob_i]
            ELSE IF change_type = "BECMG"
            THEN [prob_m |-> <<2 * n - 1, 4 * n * (num_i_cats + 1)>>,
                  prob_a |-> <<2 * n + 1, 4 * n>>,
                  prob_i |-> IF num_i_cats = 0 THEN None
                             ELSE <<2 * n - 1, 4 * n * (num_i_cats + 1)>>]
            ELSE IF change_type = "PROB30"
            THEN IF num_i_cats = 0
                 THEN [prob_m |-> <<7, 10>>, prob_a |-> <<3, 10>>, prob_i |-> None]
                 ELSE [prob_m |-> <<7, 10>>,
                       prob_a |-> <<Prob30 * (2 * n + 1), 40 * n>>,
                       prob_i |-> <<Prob30 * (2 * n - 1), 40 * n * num_i_cats>>]
            ELSE IF num_i_cats = 0
                 THEN [prob_m |-> <<6, 10>>, prob_a |-> <<4, 10>>, prob_i |-> None]
                 ELSE [prob_m |-> <<6, 10>>,
                       prob_a |-> <<Prob40 * (2 * n + 1), 40 * n>>,
                       prob_i |-> <<Prob40 * (2 * n - 1), 40 * n * num_i_cats>>]
    IN IF raw.prob_i # None /\ raw.prob_i[1] = 0
       THEN [raw EXCEPT !.prob_i = None]
       ELSE raw

\* the list from a up to b - 1, as range(a, b)
PyRange(a, b) == [k \in 1..(IF b > a THEN b - a ELSE 0) |-> a + k - 1]

\* mc_match: main, then the alternative, then the categories between them
McMatch(m_cat, a_cat, p) ==
    LET i_cats == IF m_cat = a_cat THEN <<>>
                  ELSE IF m_cat > a_cat THEN PyRange(a_cat + 1, m_cat)
                  ELSE PyRange(m_cat + 1, a_cat)
    IN <<<<m_cat, p.prob_m>>>>
       \o (IF p.prob_a # None THEN <<<<a_cat, p.prob_a>>>> ELSE <<>>)
       \o (IF p.prob_i # None
           THEN [k \in 1..Len(i_cats) |-> <<i_cats[k], p.prob_i>>]
           ELSE <<>>)

\* round(prob, 6), in millionths
Millionths(frac) == (2 * frac[1] * 1000000 + frac[2]) \div (2 * frac[2])

\* a rounding that takes the midpoint between two bins down
RoundedProbMidDown(frac) ==
    LET micro == Millionths(frac)
        int_big_prob == micro \div 100000
        rest == micro % 100000
    IN IF rest <= 25000 THEN 2 * int_big_prob
       ELSE IF rest <= 75000 THEN 2 * int_big_prob + 1
       ELSE 2 * int_big_prob + 2

\* "round to closest 0.05": round(prob, 6) in millionths, its tenths and what
\* is left of them; the result is in twentieths
RoundedProb(frac) ==
    LET micro == Millionths(frac)
        int_big_prob == micro \div 100000
        rest == micro % 100000
    IN IF rest < 25000 THEN 2 * int_big_prob
       ELSE IF rest < 75000 THEN 2 * int_big_prob + 1
       ELSE 2 * int_big_prob + 2

RoundedMcMatch(mc_match) ==
    [k \in 1..Len(mc_match) |-> <<mc_match[k][1], RoundedProb(mc_match[k][2])>>]

\* a correction that leaves the rounded probabilities as they are
NewMcMatchUncorrected(rounded_mc_match) ==
    rounded_mc_match

\* new_mc_match: when the rounded probabilities do not sum to 1.00 the
\* largest, last of the list sorted by probability, takes the difference
NewMcMatch(rounded_mc_match) ==
    LET sum_rounded_probs == SumProbs(rounded_mc_match)
        dif == sum_rounded_probs - 20
        sorted == SortByKeys(rounded_mc_match,
                             [k \in 1..Len(rounded_mc_match) |->
                                 <<rounded_mc_match[k][2], 0>>])
        max_prob == sorted[Len(sorted)]
    IN IF sum_rounded_probs # 20
       THEN Append(SubSeq(sorted, 1, Len(sorted) - 1), <<max_prob[1], max_prob[2] - dif>>)
       ELSE rounded_mc_match

\* a check that rejects sections of more than two components only
TooComplexMoreThanTwo(comp_ids) == Len(comp_ids) > 2

\* "Currently support 'simple' TAFs only": whether the components of a
\* section are too many or too mixed for the uncertainty table
TooComplex(comp_ids) ==
    LET change_types == [k \in 1..Len(comp_ids) |-> taf_comps[comp_ids[k]].change_type]
    IN \/ Len(comp_ids) > 2
       \/ /\ Len(comp_ids) = 2
          /\ \/ \E k \in 1..2 : ContainsTempo(change_types[k])
             \/ change_types = <<"BECMG", "BECMG">>

\* a length that counts the hour the component ends in
LengthInclusive(taf_comp) == (taf_comp.end_dt - taf_comp.start_dt) \div hour + 1

\* TAFComp.length, in hours
Length(taf_comp) == (taf_comp.end_dt - taf_comp.start_dt) \div hour

\* "for taf_comp in taf_comps": every component sets the probabilities anew,
\* so those of the last one are the ones the METARs get
RECURSIVE SectionMcMatch(_, _, _)
SectionMcMatch(comp_ids, main_cat, mc_match) ==
    IF comp_ids = <<>> THEN mc_match
    ELSE LET taf_comp == taf_comps[Head(comp_ids)]
         IN SectionMcMatch(Tail(comp_ids), main_cat,
                           McMatch(main_cat, taf_comp.cat,
                                   probs(Length(taf_comp), taf_comp.change_type,
                                         main_cat, taf_comp.cat)))

\* "for cat, prob in new_mc_match": the table after the entries, and whether
\* a probability had no bin
RECURSIVE CountUncertainty(_, _, _)
CountUncertainty(table, entries, cat) ==
    IF entries = <<>> THEN [obs |-> table, failed |-> FALSE]
    ELSE LET prob_ind == ProblistIndex(probbins_uncertainty, Head(entries)[2])
         IN IF prob_ind = 0 THEN [obs |-> table, failed |-> TRUE]
            ELSE CountUncertainty(Inc(table, Head(entries)[1], cat, prob_ind),
                                  Tail(entries), cat)

\* the loop of construct_rt_uncertainty over the METARs of a section
RECURSIVE PopulateUncertainty(_, _, _)
PopulateUncertainty(table, ids, mc_match) ==
    IF ids = <<>> THEN [obs |-> table, failed |-> FALSE]
    ELSE LET rounded_mc_match == RoundedMcMatch(mc_match)
             cat == MetarById(Head(ids)).cat
             counted == CountUncertainty(table, NewMcMatch(rounded_mc_match), cat)
         IN IF counted.failed THEN counted
            ELSE PopulateUncertainty(
                     Backfill(counted.obs, 0,
                              {rounded_mc_match[k][1] : k \in 1..Len(rounded_mc_match)},
                              cat),
                     Tail(ids), mc_match)

\* the exceptions main catches around either method
Caught ==
    {"TAFTooComplexError", "TAFNoMETARsError", "TAFWrongLengthError",
     "TAFNoLastHrMETARsError", "TAFTwoHourMETARGapError"}

\* a main that appends the TAF to tafs_ before construct_rt has returned
MainAfterRtAppendedFirst ==
    /\ pc \in {"done", "rejected"}
    /\ method = "rt"
    /\ IF err = "" \/ err \in Caught
       THEN /\ driver' = [driver EXCEPT !.tafs_ = TRUE, !.failed = (err # ""),
                                        !.printed = IF err = "" THEN @ ELSE Append(@, err)]
            /\ method' = "uncertainty"
            /\ pc' = "new"
       ELSE /\ driver' = [driver EXCEPT !.raised = err]
            /\ pc' = "raised"
            /\ UNCHANGED method
    /\ err' = ""
    /\ UNCHANGED <<init_comp, taf_comps, metar_comps, obs, gen_vars, main_for_this_section,
                   matchlog, pair_vars, hour, obs_uncertainty, extracted, fn_vars>>

\* main after construct_rt returned or raised: the TAF goes to tafs_ or to
\* failed, and construct_rt_uncertainty is called on it
MainAfterRt ==
    /\ pc \in {"done", "rejected"}
    /\ method = "rt"
    /\ IF err = "" \/ err \in Caught
       THEN /\ driver' = [driver EXCEPT !.tafs_ = (err = ""), !.failed = (err # ""),
                                        !.printed = IF err = "" THEN @ ELSE Append(@, err)]
            /\ method' = "uncertainty"
            /\ pc' = "new"
       ELSE /\ driver' = [driver EXCEPT !.raised = err]
            /\ pc' = "raised"
            /\ UNCHANGED method
    /\ err' = ""
    /\ UNCHANGED <<init_comp, taf_comps, metar_comps, obs, gen_vars, main_for_this_section,
                   matchlog, pair_vars, hour, obs_uncertainty, extracted, fn_vars>>

\* a construct_rt_uncertainty that goes to its loop whatever the length
ConstructRtUncertaintyAnyLength ==
    /\ pc = "new"
    /\ method = "uncertainty"
    /\ pc' = "iterating" /\ err' = "" /\ yielded' = <<>>
    /\ UNCHANGED <<init_comp, taf_comps, metar_comps, obs, g_i, g_final, main,
                   section_start, section_metar_comps, valid_comps_prev, valid_comps,
                   change_dt, section_length, main_for_this_section, matchlog,
                   pair_vars, driver_vars, fn_vars>>

\* construct_rt_uncertainty up to its loop: the length of the TAF is checked,
\* and self.sections makes a new generator, with nothing yielded yet
ConstructRtUncertainty ==
    /\ pc = "new"
    /\ method = "uncertainty"
    /\ IF init_comp.end_dt - init_comp.start_dt # VerPeriod * hour
       THEN pc' = "rejected" /\ err' = "TAFWrongLengthError" /\ UNCHANGED yielded
       ELSE pc' = "iterating" /\ err' = "" /\ yielded' = <<>>
    /\ UNCHANGED <<init_comp, taf_comps, metar_comps, obs, g_i, g_final, main,
                   section_start, section_metar_comps, valid_comps_prev, valid_comps,
                   change_dt, section_length, main_for_this_section, matchlog,
                   pair_vars, driver_vars, fn_vars>>

\* the body of the loop of construct_rt_uncertainty on the section yielded
UncertaintySection ==
    /\ pc = "yielded"
    /\ method = "uncertainty"
    /\ IF TooComplex(valid_comps_prev)
       THEN /\ pc' = "rejected" /\ err' = "TAFTooComplexError"
            /\ UNCHANGED obs_uncertainty
       ELSE \E p \in {PopulateUncertainty(
                          obs_uncertainty, ByIssueDt(section_metar_comps),
                          SectionMcMatch(valid_comps_prev, Comp(main).cat,
                                         <<<<Comp(main).cat, <<1, 1>>>>>>))} :
               /\ obs_uncertainty' = p.obs
               /\ IF p.failed
                  THEN pc' = "rejected" /\ err' = "TAFTooComplexError"
                  ELSE pc' = "populated" /\ err' = ""
    /\ UNCHANGED <<init_comp, taf_comps, metar_comps, obs, gen_vars, main_for_this_section,
                   matchlog, pair_vars, hour, method, driver, extracted, fn_vars>>

\* main after construct_rt_uncertainty returned or raised: the TAF goes to
\* tafs_uncertainty_ or to failed_uncertainty and the loop takes the next TAF
MainAfterUncertainty ==
    /\ pc \in {"done", "rejected"}
    /\ method = "uncertainty"
    /\ IF err = "" \/ err \in Caught
       THEN /\ driver' = [driver EXCEPT !.tafs_uncertainty_ = (err = ""),
                                        !.failed_uncertainty = (err # ""),
                                        !.printed = IF err = "" THEN @ ELSE Append(@, err)]
            /\ pc' = "next"
       ELSE /\ driver' = [driver EXCEPT !.raised = err]
            /\ pc' = "raised"
    /\ UNCHANGED <<init_comp, taf_comps, metar_comps, obs, err, gen_vars,
                   main_for_this_section, matchlog, pair_vars, hour, method,
                   obs_uncertainty, extracted, fn_vars>>

\* ------------------------------------------------------------- forecasts
Times == 0..VerPeriod
Absent == 0 - 1

\* the order of the extraction query on change_type
TypeOrder == <<"BECMG", "FM", "PROB30", "PROB30 TEMPO", "PROB40", "PROB40 TEMPO", "TEMPO">>
TypeRank(change_type) == CHOOSE i \in 1..Len(TypeOrder) : TypeOrder[i] = change_type

\* change groups are extracted ordered by start, end and change type
InQueryOrder(a, b) ==
    \/ a.start_dt < b.start_dt
    \/ a.start_dt = b.start_dt /\ a.end_dt < b.end_dt
    \/ a.start_dt = b.start_dt /\ a.end_dt = b.end_dt
       /\ TypeRank(a.change_type) <= TypeRank(b.change_type)

\* a set of change groups as the list the extraction query returns
RECURSIVE QueryList(_)
QueryList(comps) ==
    IF comps = {} THEN <<>>
    ELSE LET first == CHOOSE c \in comps : \A d \in comps : InQueryOrder(c, d)
         IN <<first>> \o QueryList(comps \ {first})

\* the TAFs that hold at most max of the given change groups
TafCompLists(comps, max) ==
    {QueryList(cs) : cs \in {x \in SUBSET comps : Cardinality(x) <= max}}

\* the METARs of an assignment of values to issue times, in issue order
RECURSIVE MetarList(_, _)
MetarList(at, t) ==
    IF t > VerPeriod THEN <<>>
    ELSE IF at[t] = Absent THEN MetarList(at, t + 1)
    ELSE <<NewMetarComp(t + 1, t, at[t], "MANL")>> \o MetarList(at, t + 1)

MetarLists(values, max) ==
    {MetarList(at, 0) : at \in {f \in [Times -> values \cup {Absent}] :
                                  Cardinality({t \in Times : f[t] # Absent}) <= max}}

\* the change groups a TAF of the model may hold
Groups ==
    {NewTafComp("BECMG", 0, 1, 3), NewTafComp("BECMG", 1, 2, 0),
     NewTafComp("TEMPO", 1, 3, 3), NewTafComp("PROB30", 0, 1, 2),
     NewTafComp("PROB40 TEMPO", 1, 3, 2), NewTafComp("FM", 2, 3, 2)}

\* the values of init_comp and of the METARs: one in each category
Observed == {0, 2, 3}

\* a component with its window in time units of which there are h to the hour
InTicks(taf_comp, h) ==
    [taf_comp EXCEPT !.start_dt = @ * h, !.end_dt = @ * h]

\* main before its loop: the four lists as seen from the TAF the loop stands
\* at (whether it is in each), in attempted the TAFs the loop is done with,
\* and what save.save was called with
NoLists ==
    [tafs_ |-> FALSE, failed |-> FALSE,
     tafs_uncertainty_ |-> FALSE, failed_uncertainty |-> FALSE,
     printed |-> <<>>, raised |-> "",
     attempted |-> <<>>,
     saved |-> [called |-> FALSE, tafs |-> <<>>, tafs_uncertainty |-> <<>>]]

\* a TAF as match_components hands it to construct_rt: its INIT component
\* (lengths in hours), its change groups and its METARs
InitAt(h, lengths, init_values, comp_lists, metar_lists) ==
    /\ hour = h
    /\ init_comp \in {InTicks(NewTafComp("INIT", 0, len, v), h) :
                         len \in lengths, v \in init_values}
    /\ taf_comps \in comp_lists
    /\ metar_comps \in metar_lists
    /\ extracted = metar_comps
    /\ method = "rt"
    /\ obs_uncertainty = ZeroTableUncertainty
    /\ driver = NoLists
    /\ obs = ZeroTable
    /\ pc = "new"
    /\ err = ""
    /\ g_i = 0
    /\ g_final = FALSE
    /\ main = InitId
    /\ section_start = 0
    /\ section_metar_comps = <<>>
    /\ valid_comps_prev = <<>>
    /\ valid_comps = <<>>
    /\ change_dt = 0
    /\ section_length = 0
    /\ main_for_this_section = init_comp
    /\ yielded = <<>>
    /\ matchlog = <<>>

InitWith(init_values, comp_lists, metar_lists) ==
    InitAt(1, {VerPeriod}, init_values, comp_lists, metar_lists)

\* ------------------------------- the probabilities of one METAR taken alone
\* the longest component, in hours, and the number of categories (those of
\* vis_cats) the probabilities are computed for
MaxHours == 12
NumVisCats == 6

ChangeTypes ==
    {"INIT", "FM", "TEMPO", "BECMG", "PROB30", "PROB40", "PROB30 TEMPO", "PROB40 TEMPO"}

NoProbsCall == [n |-> 1, change_type |-> "INIT", m_cat |-> 0, a_cat |-> 0]

NoProbsReturn ==
    [called |-> FALSE, mc_match |-> <<>>, rounded_mc_match |-> <<>>, new_mc_match |-> <<>>]

ProbsCalls ==
    [n : 1..MaxHours, change_type : ChangeTypes,
     m_cat : 0..(NumVisCats - 1), a_cat : 0..(NumVisCats - 1)]

\* the part of construct_rt_uncertainty that makes the entries of one METAR:
\* probs, mc_match, the rounding and the correction
RoundProbs ==
    /\ ~probs_return.called
    /\ LET mc_match == McMatch(probs_call.m_cat, probs_call.a_cat,
                               probs(probs_call.n, probs_call.change_type,
                                     probs_call.m_cat, probs_call.a_cat))
       IN probs_return' = [called |-> TRUE, mc_match |-> mc_match,
                           rounded_mc_match |-> RoundedMcMatch(mc_match),
                           new_mc_match |-> NewMcMatch(RoundedMcMatch(mc_match))]
    /\ UNCHANGED <<init_comp, taf_comps, metar_comps, obs, pc, err, gen_vars,
                   main_for_this_section, matchlog, pair_vars, driver_vars,
                   probs_call, thresh_call, thresh_return>>

\* ------------------------------------------ Category.from_thresh taken alone
NoThreshCall == <<>>

NoThreshReturn == [called |-> FALSE, cats |-> <<>>]

\* the longest list of thresholds and the largest threshold
MaxThresh == 3
MaxThreshValue == 6

\* the lists of thresholds, in ascending order
ThreshLists ==
    UNION {{t \in [1..n -> 0..MaxThreshValue] : \A i \in 1..(n - 1) : t[i] <= t[i + 1]} :
           n \in 0..MaxThresh}

\* the values looked up in the categories: finite ones and the infinite one
LookedUp == 0..(MaxThreshValue + 1) \cup {Inf}

\* one call of Category.from_thresh
FromThresh ==
    /\ ~thresh_return.called
    /\ thresh_return' = [called |-> TRUE, cats |-> from_thresh(thresh_call)]
    /\ UNCHANGED <<init_comp, taf_comps, metar_comps, obs, pc, err, gen_vars,
                   main_for_this_section, matchlog, pair_vars, driver_vars,
                   probs_call, probs_return, thresh_call>>

NoFnCalls ==
    /\ probs_call = NoProbsCall
    /\ probs_return = NoProbsReturn
    /\ thresh_call = NoThreshCall
    /\ thresh_return = NoThreshReturn

\* ------------------------------------------------- match_pair taken alone
\* the bound of the counters of the component a lone match_pair is given
MaxCount == 2

NoCall ==
    [metar_comp |-> NewMetarComp(1, 0, 0, "MANL"),
     taf_comp |-> NewTafComp("TEMPO", 0, 1, 0), tid |-> 1, main_cat |-> 0,
     is_min |-> FALSE, is_max |-> FALSE, force_match |-> FALSE]

NoReturn ==
    [called |-> FALSE,
     r |-> [matched |-> FALSE, rule |-> 0, fc_cat |-> 0, matched_prob |-> 0,
            metar_comp |-> NoCall.metar_comp, taf_comp |-> NoCall.taf_comp]]

\* the TAF components with counters as matching can leave them: the required
\* count is what update_tafs and match_pair keep it to
PairTafComps ==
    {[NewTafComp(ct, 0, 1, v) EXCEPT
           !.matched_metars = matched, !.max_matches = max,
           !.exact_matched_metars = exact, !.remaining_metars = remaining,
           !.min_matches = min,
           !.req_matches_in_section = min - matched - remaining] :
        ct \in {"TEMPO", "PROB30"}, v \in Observed, max \in {1, MaxCount},
        matched \in 0..MaxCount, exact \in 0..1, remaining \in 0..1,
        min \in 0..MaxCount}

\* the METAR components with what earlier matches can have left on them:
\* nothing, or one entry from this component or from another
PairMetarComps ==
    {NewMetarComp(1, 0, v, "MANL") : v \in Observed}
    \cup {[NewMetarComp(1, 0, v, "MANL") EXCEPT
               !.prob = prob, !.match = <<<<fc_cat, prob>>>>,
               !.matched_groups = <<tid>>] :
            v \in Observed, prob \in {One - Prob30, One}, fc_cat \in {0}, tid \in 1..2}

PairCalls ==
    {[metar_comp |-> metar_comp, taf_comp |-> taf_comp, tid |-> 1, main_cat |-> main_cat,
      is_min |-> is_min, is_max |-> is_max, force_match |-> force_match] :
        metar_comp \in PairMetarComps,
        taf_comp \in {t \in PairTafComps : t.matched_metars <= t.max_matches},
        main_cat \in CatIds, is_min \in BOOLEAN, is_max \in BOOLEAN,
        force_match \in BOOLEAN}

\* one call of match_pair
MatchPair ==
    /\ ~pair_return.called
    /\ pair_return' =
          [called |-> TRUE,
           r |-> match_pair(pair_call.metar_comp, pair_call.taf_comp, pair_call.tid,
                            pair_call.main_cat, pair_call.is_min, pair_call.is_max,
                            pair_call.force_match)]
    /\ UNCHANGED <<init_comp, taf_comps, metar_comps, obs, pc, err, gen_vars,
                   main_for_this_section, matchlog, pair_call, driver_vars, fn_vars>>

PairInit ==
    /\ InitWith({0}, {<<>>}, {<<>>})
    /\ pair_call \in PairCalls
    /\ pair_return = NoReturn
    /\ NoFnCalls

PairNext == MatchPair

SpecPair == PairInit /\ [][PairNext]_vars

RoundingInit ==
    /\ InitWith({0}, {<<>>}, {<<>>})
    /\ pair_call = NoCall
    /\ pair_return = NoReturn
    /\ probs_call \in ProbsCalls
    /\ probs_return = NoProbsReturn
    /\ thresh_call = NoThreshCall
    /\ thresh_return = NoThreshReturn

RoundingNext == RoundProbs

ThreshInit ==
    /\ InitWith({0}, {<<>>}, {<<>>})
    /\ pair_call = NoCall
    /\ pair_return = NoReturn
    /\ probs_call = NoProbsCall
    /\ probs_return = NoProbsReturn
    /\ thresh_call \in ThreshLists
    /\ thresh_return = NoThreshReturn

ThreshNext == FromThresh

SpecThresh == ThreshInit /\ [][ThreshNext]_vars

SpecRounding == RoundingInit /\ [][RoundingNext]_vars

\* ------------------------------------------------------------- main's loop
\* sql.desc(METARComp.issue_origin): the origins in descending order
OriginsDesc == <<"SPEC", "MANL", "AUTO">>

\* the filter of get_metar_comps on issue_origin
OriginsUsed(use_autometars, use_specis) ==
    IF use_autometars /\ ~use_specis THEN {"AUTO", "MANL"}
    ELSE IF use_specis /\ ~use_autometars THEN {"SPEC", "MANL"}
    ELSE IF ~use_specis /\ ~use_autometars THEN {"MANL"}
    ELSE {"SPEC", "MANL", "AUTO"}

\* the value a row of the METAR table has in the model: one for each origin
OriginValue(origin) ==
    CASE origin = "MANL" -> 0
      [] origin = "AUTO" -> 2
      [] origin = "SPEC" -> 3

\* the rows of the query from issue time t and the k-th origin on, ordered by
\* issue time and then by origin, descending
RECURSIVE QueryRows(_, _, _, _)
QueryRows(rows, used, t, k) ==
    IF t > VerPeriod THEN <<>>
    ELSE IF k > Len(OriginsDesc) THEN QueryRows(rows, used, t + 1, 1)
    ELSE IF <<t, OriginsDesc[k]>> \in rows /\ OriginsDesc[k] \in used
         THEN <<<<t, OriginsDesc[k]>>>> \o QueryRows(rows, used, t, k + 1)
         ELSE QueryRows(rows, used, t, k + 1)

\* get_metar_comps, and match_components, whose sort by issue time keeps the
\* order of the query among the METARs of one issue time
get_metar_comps(rows, use_autometars, use_specis) ==
    LET mcs == QueryRows(rows, OriginsUsed(use_autometars, use_specis), 0, 1)
    IN [k \in 1..Len(mcs) |->
           NewMetarComp(k, mcs[k][1], OriginValue(mcs[k][2]), mcs[k][2])]

\* the rows of the METAR table: at most one for an issue time and an origin
RowSets ==
    {rows \in SUBSET (Times \X Range(OriginsDesc)) : Cardinality(rows) <= MaxMetars + 1}

\* the change groups of the TAFs main is run on
DriverGroups ==
    {NewTafComp("BECMG", 0, 1, 3), NewTafComp("BECMG", 1, 2, 0),
     NewTafComp("TEMPO", 1, 3, 3), NewTafComp("PROB30", 0, 1, 2),
     NewTafComp("PROB40", 1, 2, 2), NewTafComp("FM", 2, 3, 2)}

\* TAF.__contains__: the components and METARs of a TAF lie in its window
InWindow ==
    /\ \A k \in 1..Len(taf_comps) : taf_comps[k].end_dt <= init_comp.end_dt
    /\ \A i \in 1..Len(metar_comps) : metar_comps[i].issue_dt <= init_comp.end_dt

\* TAFs of the right and of a wrong length with METARs of one origin, and
\* TAFs of the right length with METARs of several origins at an issue time
DriverInit ==
    /\ \/ InitAt(1, {VerPeriod - 1, VerPeriod, VerPeriod + 1}, {0},
                  TafCompLists(DriverGroups, MaxTafComps + 1), MetarLists({0, 3}, MaxMetars))
       \/ InitAt(1, {VerPeriod}, {0},
                  TafCompLists({NewTafComp("BECMG", 0, 1, 3), NewTafComp("PROB30", 0, 1, 2)}, 1),
                  {get_metar_comps(rows, use_autometars, use_specis) :
                      rows \in RowSets, use_autometars \in BOOLEAN, use_specis \in BOOLEAN})
    /\ InWindow
    /\ pair_call = NoCall
    /\ pair_return = NoReturn
    /\ NoFnCalls

DriverNext ==
    \/ ConstructRt
    \/ SectionsFirst
    \/ MatchSection
    \/ PopulateTable
    \/ SectionsResume
    \/ SectionsEnd
    \/ MainAfterRt
    \/ ConstructRtUncertainty
    \/ UncertaintySection
    \/ MainAfterUncertainty

SpecDriver == DriverInit /\ [][DriverNext]_vars

\* ------------------------------------------------------- main on a batch
\* the number of TAFs match_components returns
BatchSize == 2

\* the change groups of the TAFs of a batch
BatchGroups == {NewTafComp("BECMG", 0, 1, 3), NewTafComp("TEMPO", 1, 3, 3)}

\* the INIT components and the lists of change groups of those TAFs
BatchInitComps == {NewTafComp("INIT", 0, len, 0) : len \in {VerPeriod, VerPeriod + 1}}
BatchCompLists == TafCompLists(BatchGroups, MaxTafComps)

\* the TAF the loop of main is done with: the lists it was appended to
Attempted ==
    [tafs_ |-> driver.tafs_, failed |-> driver.failed,
     tafs_uncertainty_ |-> driver.tafs_uncertainty_,
     failed_uncertainty |-> driver.failed_uncertainty]

\* the METAR objects of a TAF that lie in the window of a TAF starting d
\* hours later, as the earlier TAF left them, with their times from the
\* start of the later TAF
Carried(metars, d) ==
    LET kept == SelectSeq(metars, LAMBDA m : m.issue_dt >= d * hour)
    IN [i \in 1..Len(kept) |->
           [kept[i] EXCEPT !.issue_dt = @ - d * hour, !.id = @ - d * hour]]

\* the METARs of the last d hours of the later TAF, which no TAF has used:
\* one an hour, all of one value, or none
NewMetars(d) ==
    {MetarList([t \in Times |-> IF t <= VerPeriod - d THEN Absent ELSE value], 0) :
        value \in {0, 3, Absent}}

\* "for taf in tafs": the loop takes the next TAF of the batch, which starts
\* d hours after the one before. match_components gave both the METAR
\* objects of the hours they share, so the TAF finds them as the TAF before
\* left them; its own components are new.
NextTaf ==
    /\ pc = "next"
    /\ Len(driver.attempted) + 1 < BatchSize
    /\ driver' = [driver EXCEPT !.attempted = Append(@, Attempted),
                                !.tafs_ = FALSE, !.failed = FALSE,
                                !.tafs_uncertainty_ = FALSE,
                                !.failed_uncertainty = FALSE]
    /\ init_comp' \in BatchInitComps
    /\ taf_comps' \in {comps \in BatchCompLists :
                          \A k \in 1..Len(comps) : comps[k].end_dt <= init_comp'.end_dt}
    /\ \E d \in 1..(VerPeriod - 1) :
          metar_comps' \in {Carried(metar_comps, d) \o new : new \in NewMetars(d)}
    /\ extracted' = metar_comps'
    /\ method' = "rt"
    /\ obs' = ZeroTable
    /\ obs_uncertainty' = ZeroTableUncertainty
    /\ pc' = "new"
    /\ err' = ""
    /\ g_i' = 0
    /\ g_final' = FALSE
    /\ main' = InitId
    /\ section_start' = 0
    /\ section_metar_comps' = <<>>
    /\ valid_comps_prev' = <<>>
    /\ valid_comps' = <<>>
    /\ change_dt' = 0
    /\ section_length' = 0
    /\ main_for_this_section' = init_comp'
    /\ yielded' = <<>>
    /\ matchlog' = <<>>
    /\ UNCHANGED <<hour, pair_vars, fn_vars>>

\* the TAFs of a list of main, in the order they were appended
RECURSIVE Listed(_, _, _)
Listed(attempted, list, k) ==
    IF k > Len(attempted) THEN <<>>
    ELSE (IF attempted[k][list] THEN <<k>> ELSE <<>>) \o Listed(attempted, list, k + 1)

\* after the loop: save.save(tafs, args) and
\* save.save(tafs_uncertainty, args, uncertainty=True)
Save ==
    /\ pc = "next"
    /\ Len(driver.attempted) + 1 = BatchSize
    /\ LET attempted == Append(driver.attempted, Attempted)
       IN driver' = [driver EXCEPT
              !.attempted = attempted,
              !.saved = [called |-> TRUE,
                         tafs |-> Listed(attempted, "tafs_", 1),
                         tafs_uncertainty |-> Listed(attempted, "tafs_uncertainty_", 1)]]
    /\ pc' = "saved"
    /\ UNCHANGED <<init_comp, taf_comps, metar_comps, obs, err, gen_vars,
                   main_for_this_section, matchlog, pair_vars, hour, method,
                   obs_uncertainty, extracted, fn_vars>>

BatchInit ==
    /\ InitAt(1, {VerPeriod, VerPeriod + 1}, {0}, BatchCompLists,
              MetarLists({0, 3}, MaxMetars - 1))
    /\ InWindow
    /\ pair_call = NoCall
    /\ pair_return = NoReturn
    /\ NoFnCalls

BatchNext ==
    \/ ConstructRt
    \/ SectionsFirst
    \/ MatchSection
    \/ PopulateTable
    \/ SectionsResume
    \/ SectionsEnd
    \/ MainAfterRt
    \/ ConstructRtUncertainty
    \/ UncertaintySection
    \/ MainAfterUncertainty
    \/ NextTaf
    \/ Save

SpecBatch == BatchInit /\ [][BatchNext]_vars

\* -------------------------------------------------------- construct_rt run
Init ==
    /\ InitWith(Observed, TafCompLists(Groups, MaxTafComps),
                MetarLists(Observed, MaxMetars))
    /\ pair_call = NoCall
    /\ pair_return = NoReturn
    /\ NoFnCalls

Next ==
    \/ ConstructRt
    \/ SectionsFirst
    \/ MatchSection
    \/ PopulateTable
    \/ SectionsResume
    \/ SectionsEnd

Spec == Init /\ [][Next]_vars

\* ------------------------------- construct_rt run on half-hourly METARs
\* the issue times, in half hours
HalfHours == 0..(2 * VerPeriod)

\* the METARs of an assignment of values to half hours, in issue order
RECURSIVE HalfHourlyMetarList(_, _)
HalfHourlyMetarList(at, t) ==
    IF t > 2 * VerPeriod THEN <<>>
    ELSE IF at[t] = Absent THEN HalfHourlyMetarList(at, t + 1)
    ELSE <<NewMetarComp(t + 1, t, at[t], "MANL")>> \o HalfHourlyMetarList(at, t + 1)

HalfHourlyMetarLists(values, max) ==
    {HalfHourlyMetarList(at, 0) :
        at \in {f \in [HalfHours -> values \cup {Absent}] :
                   Cardinality({t \in HalfHours : f[t] # Absent}) <= max}}

\* PROB groups, two of which overlap by an hour and two by a METAR
ProbGroups ==
    {NewTafComp("PROB30", 0, 1, 2), NewTafComp("PROB40", 1, 2, 2),
     NewTafComp("PROB40", 1, 3, 3)}

ProbInit ==
    /\ InitAt(2, {VerPeriod}, {0},
              {[k \in 1..Len(l) |-> InTicks(l[k], 2)] :
                  l \in TafCompLists(ProbGroups, MaxTafComps)},
              HalfHourlyMetarLists({0, 2}, MaxMetars + 1))
    /\ pair_call = NoCall
    /\ pair_return = NoReturn
    /\ NoFnCalls

SpecProb == ProbInit /\ [][Next]_vars

\* ------------------------------------------------------------ properties
\* the sections whose METARs have been through the whole loop body
Populated ==
    IF pc \in {"populated", "done"} THEN 1..Len(yielded)
    ELSE 1..(Len(yielded) - 1)

\* the METARs construct_rt has processed, each with the main of its section
ProcessedMetars ==
    UNION {{<<id, yielded[s].main>> : id \in Range(yielded[s].metar_comps)} :
           s \in Populated}

\* the number of entries of row fc_cat of the table
RowTotal(fc_cat) ==
    LET RECURSIVE Sum(_, _)
        Sum(j, b) ==
            IF j > Len(cats) - 1 THEN 0
            ELSE IF b > Len(probbins) THEN Sum(j + 1, 1)
            ELSE obs[fc_cat][j][b] + Sum(j, b + 1)
    IN Sum(0, 1)

\* C1: in an accepted forecast every processed METAR ends with a match list
\* whose probabilities sum to exactly one, and what match_section left
\* unallocated is the last entry, on the category of the main of its section
C1_MatchSumsToOne ==
    err = "" =>
        \A pm \in ProcessedMetars :
            LET metar_comp == MetarById(pm[1])
            IN /\ SumProbs(metar_comp.match) = One
               /\ metar_comp.prob < One =>
                    metar_comp.match[Len(metar_comp.match)]
                        = <<Comp(pm[2]).cat, One - metar_comp.prob>>

\* an accepted forecast with a METAR that a change group took part of and
\* whose remainder went to main
C1_Witness ==
    /\ pc = "done"
    /\ \E pm \in ProcessedMetars :
          /\ MetarById(pm[1]).prob \in 1..(One - 1)
          /\ Len(MetarById(pm[1]).match) >= 2

\* C2: in an accepted forecast the entries of every row of the table number
\* the METARs, each METAR counted exactly once in each row
C2_RowCountsMetars ==
    pc = "done" => \A c \in CatIds : RowTotal(c) = Len(metar_comps)

\* C3: when match_pair returns false it has changed no field of the METAR
\* nor of the TAF component, whatever the arguments
C3_FalseLeavesObjects ==
    (pair_return.called /\ ~pair_return.r.matched) =>
        /\ pair_return.r.metar_comp = pair_call.metar_comp
        /\ pair_return.r.taf_comp = pair_call.taf_comp

\* a call that passed the three guards and returned false from the last branch
C3_Witness ==
    /\ pair_return.called
    /\ ~pair_return.r.matched
    /\ GuardsPass(pair_call.metar_comp, pair_call.taf_comp, pair_call.tid)
    /\ pair_return.r.rule = 9

\* the rules of the decision table, each on its own: whether rule n applies to
\* the call, and the category it gives. needs_match is the reading of "the
\* component still needs a match in this section" that the first rule takes
SpecRuleApplies(n, needs_match) ==
    LET metar_cat == pair_call.metar_comp.cat
        comp == pair_call.taf_comp
        outstanding == comp.exact_matched_metars = 0 /\ comp.remaining_metars = 0
    IN CASE n = 1 -> needs_match /\ outstanding
         [] n = 2 -> pair_call.is_min /\ metar_cat >= comp.cat /\ outstanding
         [] n = 3 -> pair_call.is_max /\ metar_cat <= comp.cat /\ outstanding
         [] n = 4 -> \/ comp.cat < metar_cat /\ metar_cat < pair_call.main_cat
                     \/ pair_call.main_cat < metar_cat /\ metar_cat < comp.cat
         [] n = 5 -> /\ comp.cat < pair_call.main_cat
                     /\ metar_cat >= pair_call.main_cat
                     /\ pair_call.force_match
         [] n = 6 -> /\ comp.cat > pair_call.main_cat
                     /\ metar_cat <= pair_call.main_cat
                     /\ pair_call.force_match
         [] n = 7 -> pair_call.force_match
         [] n = 8 -> Abs(metar_cat - comp.cat) < Abs(metar_cat - pair_call.main_cat)
         [] n = 9 -> TRUE

SpecRuleTarget(n) ==
    CASE n \in {1, 2, 3, 7, 8} -> pair_call.taf_comp.cat
      [] n = 4 -> pair_call.metar_comp.cat
      [] n = 5 -> pair_call.main_cat - 1
      [] n = 6 -> pair_call.main_cat + 1
      [] n = 9 -> pair_call.taf_comp.cat

SpecFirstRule(needs_match) ==
    CHOOSE n \in 1..9 :
        /\ SpecRuleApplies(n, needs_match)
        /\ \A k \in 1..(n - 1) : ~SpecRuleApplies(k, needs_match)

\* a call that passed the guards did what the decision table says: the first
\* rule that applies gives the category recorded, and the call returns false
\* exactly when no rule before the ninth applies
TableDecides(needs_match) ==
    (pair_return.called
     /\ GuardsPass(pair_call.metar_comp, pair_call.taf_comp, pair_call.tid)) =>
        /\ pair_return.r.matched <=> SpecFirstRule(needs_match) # 9
        /\ pair_return.r.matched =>
              /\ pair_return.r.fc_cat = SpecRuleTarget(SpecFirstRule(needs_match))
              /\ pair_return.r.metar_comp.match
                   = Append(pair_call.metar_comp.match,
                            <<SpecRuleTarget(SpecFirstRule(needs_match)),
                              pair_return.r.matched_prob>>)

\* C7: for a call that passes the three guards, the category match_pair
\* chooses is that of the first rule of the decision table that applies, and
\* it returns false exactly when no rule before the ninth applies; the first
\* rule is that of a component that still needs a match in the section, has
\* none in its own category so far and no METARs left
C7_FirstApplicableRule ==
    TableDecides(pair_call.taf_comp.req_matches_in_section >= 1)

\* C7, amended: the same, the first rule being that of a component that needs
\* exactly one more match in the section, has none in its own category so far
\* and no METARs left
C7_FirstApplicableRuleLastMatch ==
    TableDecides(pair_call.taf_comp.req_matches_in_section = 1)

\* a call on a component that needs two more matches, has none in its own
\* category and no METARs left, with the METAR between the component and
\* main: the fourth branch of the chain gives the METAR's own category
C7_Witness ==
    /\ pair_return.called
    /\ pair_return.r.matched
    /\ pair_call.taf_comp.req_matches_in_section >= 2
    /\ pair_call.taf_comp.exact_matched_metars = 0
    /\ pair_call.taf_comp.remaining_metars = 0
    /\ pair_return.r.rule = 4
    /\ pair_return.r.fc_cat = pair_call.metar_comp.cat
    /\ pair_return.r.fc_cat # pair_call.taf_comp.cat

\* whether the last match_section made its copy of main (it heads the list
\* match_section leaves), which main_for_this_section then holds
CopyMade ==
    pc \in {"section_matched", "populated"} /\ CopyId \in Range(valid_comps_prev)

\* metars_per_hour * length of a component
Expected(taf_comp) == MetarsPerHour * (taf_comp.end_dt - taf_comp.start_dt)

\* C4: no component is ever matched more often than its max_matches, which
\* is half the expected count for a TEMPO group, the expected count for any
\* other group, and the expected count of the section for the copy of main
C4_MatchedWithinMax ==
    /\ \A k \in 1..Len(taf_comps) :
          /\ taf_comps[k].matched_metars <= taf_comps[k].max_matches
          /\ 2 * taf_comps[k].max_matches =
                IF EndsWithTempo(taf_comps[k].change_type) THEN Expected(taf_comps[k])
                ELSE 2 * Expected(taf_comps[k])
    /\ CopyMade =>
          /\ main_for_this_section.matched_metars <= main_for_this_section.max_matches
          /\ main_for_this_section.max_matches = MetarsPerHour * section_length

\* a TEMPO group that has used its whole quota while a METAR of its window
\* is not matched to it
C4_Witness ==
    \E k \in 1..Len(taf_comps) :
        /\ EndsWithTempo(taf_comps[k].change_type)
        /\ taf_comps[k].max_matches >= 1
        /\ taf_comps[k].matched_metars = taf_comps[k].max_matches
        /\ pc = "section_matched"
        /\ \E id \in Range(section_metar_comps) :
              /\ k \in Range(valid_comps_prev)
              /\ k \notin Range(MetarById(id).matched_groups)
              /\ MetarById(id).prob < One

\* C5: no component, the copy of main included, has more exact matches than
\* matches
C5_ExactWithinMatched ==
    /\ \A k \in 1..Len(taf_comps) :
          taf_comps[k].exact_matched_metars <= taf_comps[k].matched_metars
    /\ CopyMade =>
          main_for_this_section.exact_matched_metars
              <= main_for_this_section.matched_metars

\* the probability the log gives METAR id before entry i
RECURSIVE LoggedBefore(_, _)
LoggedBefore(id, i) ==
    IF i <= 1 THEN 0
    ELSE LoggedBefore(id, i - 1)
         + (IF matchlog[i - 1].metar = id THEN matchlog[i - 1].matched_prob ELSE 0)

\* C6: every successful match_pair allocates the smaller of the component's
\* probability and what the METAR has left, more than nothing; the METAR's
\* allocated probability is the sum of its match list and at most one
C6_AllocationIsMin ==
    /\ \A i \in 1..Len(matchlog) :
          LET e == matchlog[i]
              left == One - e.prob_before
          IN /\ e.matched_prob = (IF e.comp_prob < left THEN e.comp_prob ELSE left)
             /\ e.matched_prob > 0
             /\ e.prob_before = LoggedBefore(e.metar, i)
    /\ pc = "section_matched" =>
          \A id \in Range(section_metar_comps) :
              /\ MetarById(id).prob = SumProbs(MetarById(id).match)
              /\ MetarById(id).prob = LoggedBefore(id, Len(matchlog) + 1)
              /\ MetarById(id).prob <= One

\* a match that was cut to what the METAR had left after an earlier match
C6_Witness ==
    /\ pc = "section_matched"
    /\ \E i \in 1..Len(matchlog) :
          /\ matchlog[i].prob_before > 0
          /\ matchlog[i].matched_prob < matchlog[i].comp_prob

\* the components whose window holds a time
ActiveAt(dt) ==
    {k \in 1..Len(taf_comps) : taf_comps[k].start_dt <= dt /\ dt <= taf_comps[k].end_dt}

\* the sections yielded so far that hold a METAR
SectionsOf(id) == {s \in 1..Len(yielded) : id \in Range(yielded[s].metar_comps)}

\* C8: two METARs consecutive in time lie in the same section exactly when
\* the same components are active at both, and the components yielded with a
\* section are those active at each of its METARs
C8_SectionsByActiveSet ==
    /\ \A i \in 1..(Len(metar_comps) - 1) :
          (SectionsOf(metar_comps[i].id) # {} /\ SectionsOf(metar_comps[i + 1].id) # {}) =>
              (SectionsOf(metar_comps[i].id) = SectionsOf(metar_comps[i + 1].id)
               <=> ActiveAt(metar_comps[i].issue_dt) = ActiveAt(metar_comps[i + 1].issue_dt))
    /\ \A s \in 1..Len(yielded) :
          /\ Cardinality(Range(yielded[s].taf_comps)) = Len(yielded[s].taf_comps)
          /\ \A id \in Range(yielded[s].metar_comps) :
                /\ SectionsOf(id) = {s}
                /\ Range(yielded[s].taf_comps) = ActiveAt(MetarById(id).issue_dt)

\* a forecast through with a section of two METARs and a section after it
C8_Witness ==
    /\ pc = "done"
    /\ \E s \in 1..(Len(yielded) - 1) :
          /\ Len(yielded[s].metar_comps) >= 2
          /\ yielded[s].taf_comps # <<>>
          /\ yielded[s + 1].taf_comps # <<>>

\* whether a value of main is a BECMG component of the TAF
IsBecmg(m) ==
    m \in 1..Len(taf_comps) /\ taf_comps[m].change_type = "BECMG"

\* C9: main is init_comp for an initial run of sections; it only ever changes
\* to a BECMG component, and once it is one it is never init_comp again
C9_MainInitThenBecmg ==
    /\ (main = InitId \/ IsBecmg(main))
    /\ \A s \in 1..Len(yielded) :
          /\ (yielded[s].main = InitId \/ IsBecmg(yielded[s].main))
          /\ s = 1 => yielded[s].main = InitId
          /\ yielded[s].main # InitId =>
                /\ main # InitId
                /\ \A later \in (s + 1)..Len(yielded) : yielded[later].main # InitId

\* main left init_comp for a BECMG component and sections were yielded after
C9_Witness ==
    \E s \in 1..(Len(yielded) - 1) :
        /\ yielded[s].main = InitId
        /\ IsBecmg(yielded[s + 1].main)
        /\ Len(yielded) > s + 1

\* C10: between a section and the next, main is replaced only by a BECMG
\* component that was active in the section yielded, is not active in the
\* next one, and ends at the boundary time; otherwise main stays
C10_MainReplacedByLostBecmg ==
    \A s \in 1..(Len(yielded) - 1) :
        yielded[s + 1].main # yielded[s].main =>
            /\ IsBecmg(yielded[s + 1].main)
            /\ yielded[s + 1].main \in Range(yielded[s].taf_comps)
            /\ yielded[s + 1].main \notin Range(yielded[s + 1].taf_comps)
            /\ taf_comps[yielded[s + 1].main].end_dt = yielded[s].change_dt

\* C10, amended: between a section and the next, main is replaced only by a
\* BECMG component that was active in the section yielded and ends at the
\* boundary time, whether or not it is still active in the next section;
\* otherwise main stays
C10_MainReplacedByEndingBecmg ==
    \A s \in 1..(Len(yielded) - 1) :
        yielded[s + 1].main # yielded[s].main =>
            /\ IsBecmg(yielded[s + 1].main)
            /\ yielded[s + 1].main \in Range(yielded[s].taf_comps)
            /\ taf_comps[yielded[s + 1].main].end_dt = yielded[s].change_dt

\* main was replaced by a BECMG component that is still active in the next
\* section
C10_Witness ==
    \E s \in 1..(Len(yielded) - 1) :
        /\ yielded[s + 1].main # yielded[s].main
        /\ yielded[s + 1].main \in Range(yielded[s + 1].taf_comps)

\* the BECMG components yielded with section s whose window ended before the
\* first METAR of the section after it
EndedBecmg(s) ==
    {k \in Range(yielded[s].taf_comps) :
        /\ taf_comps[k].change_type = "BECMG"
        /\ taf_comps[k].end_dt < MetarById(yielded[s + 1].metar_comps[1]).issue_dt}

\* C11: once a BECMG component active in a section has ended before the METARs
\* of the next section, every later section is yielded with that component as
\* main, until a BECMG component that ended later takes its place, whatever
\* else started or ended between the two sections
C11_EndedBecmgIsMain ==
    \A t \in 2..Len(yielded) :
        \A s \in 1..(t - 1) :
            (EndedBecmg(s) # {} /\ \A u \in (s + 1)..(t - 1) : EndedBecmg(u) = {}) =>
                yielded[t].main \in EndedBecmg(s)

\* C19: the probabilities entered for one METAR, after the rounding to
\* twentieths and the correction of the largest, sum to exactly 1.00 and each
\* is a bin of probbins_uncertainty, for every change type, length and pair
\* of main and alternative categories; the rounding takes each probability
\* to the nearest twentieth, a midpoint to the one above
C19_RoundedProbsSumToOne ==
    probs_return.called =>
        /\ SumProbs(probs_return.new_mc_match) = 20
        /\ \A k \in 1..Len(probs_return.new_mc_match) :
              ProblistIndex(probbins_uncertainty, probs_return.new_mc_match[k][2]) # 0
        /\ Len(probs_return.new_mc_match) = Len(probs_return.mc_match)
        /\ \A k \in 1..Len(probs_return.mc_match) :
              LET micro == Millionths(probs_return.mc_match[k][2])
                  twentieths == probs_return.rounded_mc_match[k][2]
              IN /\ (2 * twentieths - 1) * 25000 <= micro
                 /\ micro < (2 * twentieths + 1) * 25000

\* a computation with categories between main and alternative whose rounded
\* probabilities did not sum to 1.00, so that the largest was corrected
C19_Witness ==
    /\ probs_return.called
    /\ Len(probs_return.mc_match) >= 3
    /\ SumProbs(probs_return.rounded_mc_match) # 20
    /\ probs_return.new_mc_match # probs_return.rounded_mc_match

\* C20: from_thresh on N ascending thresholds returns N + 1 categories: the
\* first begins at 0, each ends where the next begins, the last has no upper
\* bound, and every value looked up, the infinite one included, is in exactly
\* one of them
C20_CategoriesPartition ==
    thresh_return.called =>
        LET c == thresh_return.cats
        IN /\ Len(c) = Len(thresh_call) + 1
           /\ c[1].lbound = 0
           /\ \A i \in 1..(Len(c) - 1) : c[i].ubound = c[i + 1].lbound
           /\ c[Len(c)].ubound = Inf
           /\ \A val \in LookedUp :
                 Cardinality({i \in 1..Len(c) : CategoryEq(c[i], val)}) = 1

\* three distinct thresholds gave four categories
C20_Witness ==
    /\ thresh_return.called
    /\ Len(thresh_call) = 3
    /\ thresh_call[1] < thresh_call[2]
    /\ thresh_call[2] < thresh_call[3]
    /\ Len(thresh_return.cats) = 4

\* a TAF with no change groups whose METARs are all in the category of INIT
InitOnly ==
    /\ taf_comps = <<>>
    /\ \A i \in 1..Len(metar_comps) : metar_comps[i].cat = init_comp.cat

\* C16: for a TAF with no change groups and k METARs all in the category c of
\* INIT, construct_rt ends with k in the cell of forecast c, observed c and
\* probability 1.0, k in the zero bin of every other forecast category for
\* observed c, and 0 everywhere else
C16_InitOnlyTable ==
    (pc = "done" /\ InitOnly) =>
        \A i \in CatIds : \A j \in CatIds : \A b \in 1..Len(probbins) :
            obs[i][j][b] =
                IF j = init_comp.cat
                   /\ \/ i = init_comp.cat /\ b = ProblistIndex(probbins, One)
                      \/ i # init_comp.cat /\ b = ProblistIndex(probbins, 0)
                THEN Len(metar_comps)
                ELSE 0

\* construct_rt went through such a TAF with three METARs
C16_Witness ==
    /\ pc = "done"
    /\ InitOnly
    /\ Len(metar_comps) = 3

\* the start of the TAF and the issue times of the METARs added to it
GapTimes == {init_comp.start_dt} \cup {extracted[i].issue_dt : i \in 1..Len(extracted)}

\* two of those times, next to each other in time, are more than two hours apart
HasGap ==
    \E a \in GapTimes : \E b \in GapTimes :
        /\ b - a > 2 * hour
        /\ \A c \in GapTimes : c <= a \/ c >= b

RightLength == init_comp.end_dt - init_comp.start_dt = VerPeriod * hour

\* C12: for a TAF of the right length with at least one METAR, iterating the
\* sections raises TAFTwoHourMETARGapError, before any section is yielded,
\* exactly when two consecutive times of the sequence start, METAR, METAR, ...
\* are more than two hours apart; main then puts the TAF on both failed lists
\* and goes on to the next TAF
C12_GapErrorIffGap ==
    /\ err = "TAFTwoHourMETARGapError" =>
          HasGap /\ yielded = <<>> /\ obs = ZeroTable /\ obs_uncertainty = ZeroTableUncertainty
    /\ (RightLength /\ extracted # <<>> /\ pc \notin {"new", "iterating"}
        /\ method = "rt" /\ HasGap) =>
          err = "TAFTwoHourMETARGapError"
    /\ (RightLength /\ extracted # <<>> /\ pc = "next") =>
          /\ HasGap <=> driver.printed
                          = <<"TAFTwoHourMETARGapError", "TAFTwoHourMETARGapError">>
          /\ HasGap => /\ driver.failed /\ driver.failed_uncertainty
                       /\ ~driver.tafs_ /\ ~driver.tafs_uncertainty_
                       /\ driver.raised = ""
    /\ pc # "raised"

\* a TAF with two METARs or more and a gap of more than two hours went to
\* both failed lists
C12_Witness ==
    /\ pc = "next"
    /\ HasGap
    /\ Len(extracted) >= 2
    /\ driver.failed
    /\ driver.failed_uncertainty

\* a TAF whose METARs leave a gap of exactly two hours was accepted
C12_WitnessTwoHours ==
    /\ pc = "next"
    /\ \E a \in GapTimes : \E b \in GapTimes :
          b - a = 2 * hour /\ \A c \in GapTimes : c <= a \/ c >= b
    /\ driver.tafs_

\* the METARs added to the TAF for an issue time, and the ones still there
ExtractedAt(dt) == {i \in 1..Len(extracted) : extracted[i].issue_dt = dt}

KeptAt(dt) == {i \in 1..Len(metar_comps) : metar_comps[i].issue_dt = dt}

Fresh(taf_comp) ==
    taf_comp = InTicks(NewTafComp(taf_comp.change_type, taf_comp.start_dt \div hour,
                                  taf_comp.end_dt \div hour, taf_comp.value), hour)

\* C14: for a TAF whose length is not the verification period, construct_rt
\* and construct_rt_uncertainty both raise TAFWrongLengthError before any
\* section is made or matched: both tables stay all zero, no component and no
\* METAR is changed, and no other error is ever raised for it
C14_WrongLengthFirst ==
    ~RightLength =>
        /\ pc \in {"new", "rejected", "next"}
        /\ err \in {"", "TAFWrongLengthError"}
        /\ pc = "rejected" => err = "TAFWrongLengthError"
        /\ obs = ZeroTable
        /\ obs_uncertainty = ZeroTableUncertainty
        /\ yielded = <<>>
        /\ matchlog = <<>>
        /\ metar_comps = extracted
        /\ \A i \in 1..Len(metar_comps) : metar_comps[i].match = <<>>
        /\ \A k \in 1..Len(taf_comps) : Fresh(taf_comps[k])
        /\ Fresh(init_comp)
        /\ pc = "next" =>
              /\ driver.printed = <<"TAFWrongLengthError", "TAFWrongLengthError">>
              /\ driver.failed /\ driver.failed_uncertainty
              /\ ~driver.tafs_ /\ ~driver.tafs_uncertainty_

\* both methods were run on a TAF of a wrong length that has change groups
\* and whose METARs would not pass the checks of sections either
C14_Witness ==
    /\ ~RightLength
    /\ pc = "next"
    /\ taf_comps # <<>>
    /\ CoverageError(extracted) # ""

\* the change types with TEMPO in their name
TempoTypes == {"TEMPO", "PROB30 TEMPO", "PROB40 TEMPO"}

\* a section of more than 2 components, or of 2 of which one has a TEMPO
\* type or both are BECMG
NotSimple(s) ==
    LET ids == yielded[s].taf_comps
    IN \/ Len(ids) > 2
       \/ /\ Len(ids) = 2
          /\ \/ \E k \in 1..2 : taf_comps[ids[k]].change_type \in TempoTypes
             \/ \A k \in 1..2 : taf_comps[ids[k]].change_type = "BECMG"

\* construct_rt_uncertainty raised TAFTooComplexError at section s
RejectedAt(s) ==
    /\ s = Len(yielded)
    /\ \/ pc = "rejected" /\ err = "TAFTooComplexError"
       \/ /\ pc = "next" /\ driver.failed_uncertainty
          /\ driver.printed[Len(driver.printed)] = "TAFTooComplexError"

\* construct_rt_uncertainty went through its loop body for section s
ProcessedAt(s) ==
    \/ s < Len(yielded)
    \/ pc \in {"populated", "done"}
    \/ pc = "next" /\ driver.tafs_uncertainty_

\* C18: construct_rt_uncertainty raises TAFTooComplexError at a section
\* exactly when the section has more than 2 components, or 2 of which one has
\* a change type containing TEMPO or both are BECMG; every other section is
\* processed
C18_TooComplexIffNotSimple ==
    (method = "uncertainty" /\ pc # "new") =>
        \A s \in 1..Len(yielded) :
            /\ RejectedAt(s) => NotSimple(s)
            /\ ProcessedAt(s) => ~NotSimple(s)
            /\ (s = Len(yielded) /\ pc = "yielded") \/ RejectedAt(s) \/ ProcessedAt(s)

\* a section of two components, one of them a TEMPO, was rejected
C18_Witness ==
    /\ method = "uncertainty"
    /\ \E s \in 1..Len(yielded) :
          /\ RejectedAt(s)
          /\ Len(yielded[s].taf_comps) = 2
          /\ \E k \in 1..2 : taf_comps[yielded[s].taf_comps[k]].change_type = "TEMPO"

\* a section of two BECMG components was rejected
C18_WitnessBecmg ==
    /\ method = "uncertainty"
    /\ \E s \in 1..Len(yielded) :
          /\ RejectedAt(s)
          /\ Len(yielded[s].taf_comps) = 2
          /\ \A k \in 1..2 : taf_comps[yielded[s].taf_comps[k]].change_type = "BECMG"

\* a section of three components was rejected
C18_WitnessThree ==
    /\ method = "uncertainty"
    /\ \E s \in 1..Len(yielded) : RejectedAt(s) /\ Len(yielded[s].taf_comps) = 3

\* sections of no, one, two and three components reached the check
C18_WitnessSizes ==
    /\ method = "uncertainty"
    /\ pc = "next"
    /\ driver.tafs_uncertainty_
    /\ \E s \in 1..Len(yielded) : Len(yielded[s].taf_comps) = 2
    /\ \E s \in 1..Len(yielded) : Len(yielded[s].taf_comps) = 1
    /\ \E s \in 1..Len(yielded) : Len(yielded[s].taf_comps) = 0

\* the sections whose only component is a PROB30 or a PROB40
ProbOnly(s) ==
    /\ Len(yielded[s].taf_comps) = 1
    /\ taf_comps[yielded[s].taf_comps[1]].change_type \in {"PROB30", "PROB40"}

\* the METAR is recorded with the probability of the component for the
\* category of the component and with the rest for the category of main
RecordedAsProb(s, id) ==
    LET taf_comp == taf_comps[yielded[s].taf_comps[1]]
        metar_comp == MetarById(id)
        main_cat == Comp(yielded[s].main).cat
    IN /\ metar_comp.match = <<<<taf_comp.cat, taf_comp.prob>>,
                               <<main_cat, One - taf_comp.prob>>>>
       /\ obs[taf_comp.cat][metar_comp.cat][ProblistIndex(probbins, taf_comp.prob)] >= 1
       /\ obs[main_cat][metar_comp.cat][ProblistIndex(probbins, One - taf_comp.prob)] >= 1

\* C17: in a section whose only component is a PROB30 (PROB40), a METAR in
\* the category of the component is recorded with 0.3 (0.4) for that category
\* and 0.7 (0.6) for the category of main
C17_ProbAndResidual ==
    \A s \in Populated :
        ProbOnly(s) =>
            \A id \in Range(yielded[s].metar_comps) :
                MetarById(id).cat = taf_comps[yielded[s].taf_comps[1]].cat
                    => RecordedAsProb(s, id)

\* the METAR is recorded with the whole probability for the category of main
RecordedAsMain(s, id) ==
    LET metar_comp == MetarById(id)
        main_cat == Comp(yielded[s].main).cat
    IN /\ metar_comp.match = <<<<main_cat, One>>>>
       /\ obs[main_cat][metar_comp.cat][ProblistIndex(probbins, One)] >= 1

\* the METARs of section s in the category of its only component
InCategory(s) ==
    {id \in Range(yielded[s].metar_comps) :
        MetarById(id).cat = taf_comps[yielded[s].taf_comps[1]].cat}

\* what construct_rt does in such a section: the METARs in the category of
\* the component are recorded with 0.3 (0.4) and 0.7 (0.6) until the
\* component has matched max_matches of them, and those left over are
\* recorded with 1.0 for the category of main
ProbAndResidualUpToMax ==
    \A s \in Populated :
        ProbOnly(s) =>
            LET taf_comp == taf_comps[yielded[s].taf_comps[1]]
                as_prob == {id \in InCategory(s) : RecordedAsProb(s, id)}
            IN /\ \A id \in InCategory(s) \ as_prob :
                     /\ RecordedAsMain(s, id)
                     /\ taf_comp.matched_metars = taf_comp.max_matches
               /\ taf_comp.matched_metars < taf_comp.max_matches
                     => as_prob = InCategory(s)

\* a one-hour PROB30 with three half-hourly METARs in its category: two are
\* recorded with 0.3 and 0.7 and the third with 1.0 for main
ThirdMetarRecordedAsMain ==
    \E s \in Populated :
        /\ ProbOnly(s)
        /\ taf_comps[yielded[s].taf_comps[1]].change_type = "PROB30"
        /\ Cardinality({id \in InCategory(s) : RecordedAsProb(s, id)}) = 2
        /\ \E id \in InCategory(s) : RecordedAsMain(s, id)

\* the probability is that of a bin of probbins
HasBin(prob) == \E b \in 1..Len(probbins) : probbins[b] = prob

\* the entries of a METAR whose probability has no bin
NoBinEntries(id) ==
    {k \in 1..Len(MetarById(id).match) : ~HasBin(MetarById(id).match[k][2])}

\* construct_rt raised TAFTooComplexError in the loop over the METARs of the
\* section yielded last
LookupFailed == pc = "rejected" /\ err = "TAFTooComplexError" /\ method = "rt"

\* the METAR at which the lookup failed: the first of the section, in issue
\* order, with an entry that has no bin
FailedAt ==
    LET ids == Range(yielded[Len(yielded)].metar_comps)
        bad == {id \in ids : NoBinEntries(id) # {}}
    IN CHOOSE id \in bad :
           \A o \in bad : MetarById(id).issue_dt <= MetarById(o).issue_dt

\* the entries construct_rt has looked up: <<METAR, position in its match>>
LookedUpEntries ==
    LET whole(ids) == UNION {{<<id, k>> : k \in 1..Len(MetarById(id).match)} : id \in ids}
        done == UNION {Range(yielded[s].metar_comps) : s \in Populated}
    IN IF LookupFailed
       THEN whole(done)
            \cup whole({id \in Range(yielded[Len(yielded)].metar_comps) :
                           MetarById(id).issue_dt < MetarById(FailedAt).issue_dt})
            \cup {<<FailedAt, k>> : k \in 1..Len(MetarById(FailedAt).match)}
       ELSE whole(done)

\* the entries that were counted: all but those of the METAR the lookup
\* failed at, from its first entry without a bin on
CountedEntries ==
    {e \in LookedUpEntries :
        \A k \in NoBinEntries(e[1]) : e[2] < k}

\* C15: every recorded probability is counted in the table at the bin equal
\* to it and in no other bin; where a probability has no bin, construct_rt
\* raises TAFTooComplexError and the probability is counted in no bin
C15_CountedAtItsBinOnly ==
    /\ \A counted \in {CountedEntries} :
          \A fc_cat \in CatIds, cat \in CatIds, b \in 2..Len(probbins) :
              obs[fc_cat][cat][b] =
                  Cardinality({e \in counted :
                                  /\ MetarById(e[1]).cat = cat
                                  /\ MetarById(e[1]).match[e[2]] = <<fc_cat, probbins[b]>>})
    /\ \A s \in Populated : \A id \in Range(yielded[s].metar_comps) : NoBinEntries(id) = {}
    /\ LookupFailed =>
          /\ yielded # <<>>
          /\ \E id \in Range(yielded[Len(yielded)].metar_comps) : NoBinEntries(id) # {}

\* the lookup failed on a probability of 0.2, which has no bin: two PROB40
\* components were matched to the METAR and 0.2 was left for main
C15_Witness ==
    /\ LookupFailed
    /\ \E k \in NoBinEntries(FailedAt) : MetarById(FailedAt).match[k][2] = 2
    /\ \E e \in CountedEntries : e[1] = FailedAt

\* the sum of the lengths, in hours, of the first n sections yielded
RECURSIVE SumLengths(_)
SumLengths(n) == IF n = 0 THEN 0 ELSE yielded[n].length + SumLengths(n - 1)

\* C27: the sections tile the validity window: the first starts at the
\* start of the TAF, each one starts at the boundary that ended the one
\* before it, none has a negative length, and when construct_rt has accepted
\* the TAF the last one ends at the end of the TAF and the lengths sum to
\* the length of the TAF
C27_SectionsTile ==
    /\ yielded # <<>> => yielded[1].start = init_comp.start_dt
    /\ \A s \in 1..Len(yielded) :
          /\ yielded[s].length >= 0
          /\ yielded[s].length * hour = yielded[s].change_dt - yielded[s].start
          /\ s > 1 => yielded[s].start = yielded[s - 1].change_dt
    /\ (pc = "done" /\ err = "") =>
          /\ yielded # <<>>
          /\ yielded[Len(yielded)].change_dt = init_comp.end_dt
          /\ SumLengths(Len(yielded)) * hour = init_comp.end_dt - init_comp.start_dt

\* an accepted TAF of three sections, the second of which begins at a
\* boundary that lies before its first METAR
C27_Witness ==
    /\ pc = "done" /\ err = ""
    /\ Len(yielded) = 3
    /\ \E id \in Range(yielded[2].metar_comps) :
          /\ MetarById(id).issue_dt > yielded[2].start
          /\ \A o \in Range(yielded[2].metar_comps) :
                MetarById(id).issue_dt <= MetarById(o).issue_dt

\* an accepted TAF with a section of length zero
C27_WitnessZeroLength ==
    /\ pc = "done" /\ err = ""
    /\ \E s \in 1..Len(yielded) : yielded[s].length = 0

\* the METARs of the sections yielded so far, in the order they were yielded
RECURSIVE YieldedMetars(_)
YieldedMetars(n) ==
    IF n = 0 THEN <<>>
    ELSE YieldedMetars(n - 1) \o yielded[n].metar_comps

\* the generator has come to its end
Exhausted == pc = "done" \/ (pc = "next" /\ driver.tafs_uncertainty_)

\* C29: TAF.sections ends after at most as many sections as there are
\* METARs left by remove_duplicates; every section holds a METAR, no METAR
\* is in two sections, the METARs come in order of issue time within and
\* across the sections, and when the generator has ended every METAR up
\* to the cut-off is in a section
C29_SectionsOfMetars ==
    \A ms \in {YieldedMetars(Len(yielded))} :
        /\ Len(yielded) <= Len(metar_comps)
        /\ g_i <= Len(metar_comps) + 1
        /\ \A s \in 1..Len(yielded) : yielded[s].metar_comps # <<>>
        /\ \A i \in 1..Len(ms) : \E k \in 1..Len(metar_comps) : metar_comps[k].id = ms[i]
        /\ \A i \in 1..Len(ms), j \in 1..Len(ms) :
              i < j => MetarById(ms[i]).issue_dt < MetarById(ms[j]).issue_dt
        /\ Exhausted =>
              /\ Len(ms) >= 1
              /\ \A k \in 1..Len(metar_comps) :
                    metar_comps[k].issue_dt <= init_comp.start_dt + VerPeriod * hour
                        => \E i \in 1..Len(ms) : ms[i] = metar_comps[k].id

\* the generator ended on a TAF whose METARs held duplicates, with fewer
\* sections than METARs and a section of more than one METAR
C29_Witness ==
    /\ pc = "done"
    /\ Len(extracted) > Len(metar_comps)
    /\ Len(yielded) >= 2
    /\ Len(yielded) < Len(metar_comps)

\* match_section is run on a section that has components
SectionWithComps == pc = "yielded" /\ pc' = "section_matched" /\ valid_comps_prev # <<>>

\* the copy of main as match_section makes it, before any matching
CopyAtStart == MainForThisSection(Comp(main), MetarsPerHour * section_length)

\* C23: the copy of main starts every section with matched_metars,
\* exact_matched_metars, remaining_metars and req_matches_in_section 0,
\* min_matches 0 and max_matches = metars_in_section, and the matches made to
\* the copy leave the counters of main itself as they were
C23_CopyOfMainZeroed ==
    [][SectionWithComps =>
          /\ CopyAtStart.matched_metars = 0
          /\ CopyAtStart.exact_matched_metars = 0
          /\ CopyAtStart.remaining_metars = 0
          /\ CopyAtStart.req_matches_in_section = 0
          /\ CopyAtStart.min_matches = 0
          /\ CopyAtStart.max_matches = MetarsPerHour * section_length
          /\ main \notin Range(valid_comps_prev) => Comp(main)' = Comp(main)]_vars

\* what match_section does: every counter but exact_matched_metars is reset
\* in the copy, which keeps the exact matches main had when it was copied, and
\* the copy takes the matches in place of main
CopyOfMainKeepsExact ==
    [][SectionWithComps =>
          /\ CopyAtStart.matched_metars = 0
          /\ CopyAtStart.exact_matched_metars = Comp(main).exact_matched_metars
          /\ CopyAtStart.remaining_metars = 0
          /\ CopyAtStart.req_matches_in_section = 0
          /\ CopyAtStart.min_matches = 0
          /\ CopyAtStart.max_matches = MetarsPerHour * section_length
          /\ main_for_this_section'.matched_metars
                = Cardinality({k \in 1..Len(matchlog') : matchlog'[k].comp = CopyId})
          /\ main \notin Range(valid_comps_prev) => Comp(main)' = Comp(main)]_vars

\* a section whose main is a BECMG that had an exact match before
CopyOfBecmgWithExact ==
    /\ pc = "yielded" /\ valid_comps_prev # <<>>
    /\ main # InitId
    /\ main \notin Range(valid_comps_prev)
    /\ Comp(main).exact_matched_metars >= 1

\* C28: the category match_pair records lies between the category of the
\* component and that of main, both included, and is that of main only where
\* the component has the category of main; so it is a category of the table
C28_RecordedCatInRange ==
    (pair_return.called /\ pair_return.r.matched) =>
        LET a_cat == pair_call.taf_comp.cat
            m_cat == pair_call.main_cat
            match == pair_return.r.metar_comp.match
            fc_cat == match[Len(match)][1]
        IN /\ Len(match) = Len(pair_call.metar_comp.match) + 1
           /\ fc_cat = pair_return.r.fc_cat
           /\ (a_cat <= fc_cat /\ fc_cat <= m_cat) \/ (m_cat <= fc_cat /\ fc_cat <= a_cat)
           /\ fc_cat = m_cat => a_cat = m_cat
           /\ fc_cat \in CatIds

\* a forced match of a METAR lying beyond main, seen from the component: the
\* category next to main on the side of the component is recorded
C28_Witness ==
    /\ pair_return.called /\ pair_return.r.matched
    /\ pair_return.r.rule \in {5, 6}
    /\ pair_return.r.fc_cat # pair_call.taf_comp.cat
    /\ pair_return.r.fc_cat # pair_call.metar_comp.cat

\* the probabilities construct_rt has a bin for, 0.0 left out
Recordable == {probbins[b] : b \in 2..Len(probbins)}

\* in every section yielded so far at most one component has a probability
\* below 1
OneProbAtMost ==
    \A s \in 1..Len(yielded) :
        Cardinality({k \in 1..Len(yielded[s].taf_comps) :
                        taf_comps[yielded[s].taf_comps[k]].prob < One}) <= 1

\* C30: where every section has at most one component of probability below
\* 1, every probability recorded for a METAR, the remainder given to main
\* included, is 0.3, 0.4, 0.6, 0.7 or 1.0, and construct_rt does not raise
\* TAFTooComplexError
C30_OneProbKeepsToBins ==
    OneProbAtMost =>
        /\ \A i \in 1..Len(metar_comps) : \A k \in 1..Len(metar_comps[i].match) :
              metar_comps[i].match[k][2] \in Recordable
        /\ \A i \in 1..Len(matchlog) : matchlog[i].matched_prob \in Recordable
        /\ ~LookupFailed

\* a section of a PROB group and a group of probability 1 went into the
\* table with a METAR that has 0.3 or 0.4 from the first and the rest from
\* the second
C30_Witness ==
    /\ pc = "populated"
    /\ OneProbAtMost
    /\ \E i \in 1..Len(metar_comps) :
          /\ Len(metar_comps[i].match) = 2
          /\ metar_comps[i].match[1][2] \in {Prob30, Prob40}
          /\ metar_comps[i].match[2][2] = One - metar_comps[i].match[1][2]
          /\ \E k \in 1..Len(matchlog) :
                /\ matchlog[k].metar = metar_comps[i].id
                /\ matchlog[k].comp # CopyId
                /\ matchlog[k].comp_prob = One

\* a TAF with a section of two PROB components that was rejected
TwoProbsRejected == ~OneProbAtMost /\ LookupFailed

\* the components that need one match: min_matches = 1
NeedsOneMatch(taf_comp) == taf_comp.change_type = "BECMG" \/ EndsWithTempo(taf_comp.change_type)

\* the sections the component was yielded with
SectionsWith(k) == {s \in 1..Len(yielded) : k \in Range(yielded[s].taf_comps)}

\* match_section has been through the last section of the component's window
WindowProcessed(k) ==
    /\ SectionsWith(k) # {}
    /\ \/ pc = "done"
       \/ /\ pc \in {"section_matched", "populated"}
          /\ Len(yielded) \in SectionsWith(k)
          /\ g_final \/ k \notin Range(valid_comps)
       \/ Len(yielded) \notin SectionsWith(k)

\* C24: a TEMPO or BECMG component whose remaining_metars has come to 0, the
\* last section of its window having been through match_section, has a METAR
\* matched to its own category: exact_matched_metars >= 1
C24_ExactMatchByWindowEnd ==
    \A k \in 1..Len(taf_comps) :
        (NeedsOneMatch(taf_comps[k]) /\ WindowProcessed(k)
         /\ taf_comps[k].remaining_metars = 0)
            => taf_comps[k].exact_matched_metars >= 1

\* a BECMG whose only section held one METAR, which the BECMG before it took
\* whole: remaining_metars 0 and neither a match nor an exact match
BecmgLeftWithoutMatch ==
    \E k \in 1..Len(taf_comps) :
        /\ taf_comps[k].change_type = "BECMG"
        /\ WindowProcessed(k)
        /\ taf_comps[k].remaining_metars = 0
        /\ taf_comps[k].matched_metars = 0
        /\ taf_comps[k].exact_matched_metars = 0
        /\ \E j \in 1..Len(matchlog) :
              /\ matchlog[j].comp \notin {k, CopyId}
              /\ matchlog[j].matched_prob = One

\* the loops (a), (b), (c) of the pass with prob_limit 0.5 and of the pass
\* with prob_limit 1.0
FirstPass == {"a1", "b1", "c1"}
SecondPass == {"a2", "b2", "c2"}

\* C25: in the pass with prob_limit 0.5 no component of probability above 0.5,
\* the copy of main included, gets a match in loop (a), (b) or (c); every
\* match the passes give to a component of probability 1.0 is made in the pass
\* with prob_limit 1.0, after every match of the first pass
C25_FirstPassBelowHalf ==
    \A j \in 1..Len(matchlog) :
        /\ matchlog[j].phase \in FirstPass
              => /\ 2 * matchlog[j].comp_prob <= One
                 /\ matchlog[j].comp # CopyId
        /\ (matchlog[j].phase \in FirstPass \cup SecondPass /\ matchlog[j].comp_prob = One)
              => /\ matchlog[j].phase \in SecondPass
                 /\ \A i \in 1..Len(matchlog) :
                       matchlog[i].phase \in FirstPass => i < j

\* a section where a PROB component was matched in the first pass and a
\* component of probability 1.0 in the second
C25_Witness ==
    /\ pc = "section_matched"
    /\ \E i, j \in 1..Len(matchlog) :
          /\ matchlog[i].phase \in FirstPass
          /\ matchlog[i].comp_prob \in {Prob30, Prob40}
          /\ matchlog[j].phase \in SecondPass
          /\ matchlog[j].comp_prob = One
          /\ i < j

\* mc_match of a section when probs is given n_of[k] as n for component k
RECURSIVE McMatchWithN(_, _, _, _)
McMatchWithN(comp_ids, main_cat, mc_match, n_of) ==
    IF comp_ids = <<>> THEN mc_match
    ELSE LET taf_comp == taf_comps[Head(comp_ids)]
         IN McMatchWithN(Tail(comp_ids), main_cat,
                         McMatch(main_cat, taf_comp.cat,
                                 probs(n_of[Head(comp_ids)], taf_comp.change_type,
                                       main_cat, taf_comp.cat)),
                         n_of)

\* the table construct_rt_uncertainty would have after the section yielded if
\* probs were given n_of[k] as n
TableWithN(n_of) ==
    PopulateUncertainty(obs_uncertainty, ByIssueDt(section_metar_comps),
                        McMatchWithN(valid_comps_prev, Comp(main).cat,
                                     <<<<Comp(main).cat, <<1, 1>>>>>>, n_of))

\* construct_rt_uncertainty populates the table from a section with
\* components
SectionPopulated ==
    /\ pc = "yielded" /\ method = "uncertainty"
    /\ pc' = "populated"
    /\ valid_comps_prev # <<>>

\* C26 as stated: n is the length the section was yielded with, so the table
\* after a section of one or two components is the one the formulas give
\* with n the section_length of the section
C26_SectionLengthIsN ==
    [][(SectionPopulated /\ section_length >= 1)
          => obs_uncertainty' =
                 TableWithN([k \in 1..Len(taf_comps) |-> section_length]).obs]_vars

\* C26 amended: the n of the formulas for a component is the component's own length
\* in hours, taf_comp.length, whatever section_length the section was yielded
\* with: the table after a section of one or two components is the one the
\* formulas give with that n
C26_ComponentLengthIsN ==
    [][SectionPopulated
          => obs_uncertainty' =
                 TableWithN([k \in 1..Len(taf_comps) |->
                                (taf_comps[k].end_dt - taf_comps[k].start_dt) \div hour]).obs]_vars

\* the table was populated from a section whose length is not the length of
\* its component, and the two lengths give different tables
C26_Witness ==
    /\ pc = "populated" /\ method = "uncertainty"
    /\ valid_comps_prev # <<>>
    /\ section_length >= 1
    /\ \E k \in Range(valid_comps_prev) :
          /\ (taf_comps[k].end_dt - taf_comps[k].start_dt) \div hour # section_length
          /\ taf_comps[k].change_type \in {"BECMG", "TEMPO"}
          /\ taf_comps[k].cat # Comp(main).cat

\* a METAR as extraction made it, matched by no TAF
Unmatched(metar_comp) == [metar_comp EXCEPT !.matched_groups = <<>>, !.match = <<>>, !.prob = 0]

\* construct_rt calls match_section on the section yielded
MatchSectionCalled ==
    /\ pc = "yielded" /\ method = "rt"
    /\ pc' = "section_matched"

\* what match_section would leave had the METARs of the section never been
\* matched before
OnUnmatched ==
    match_section(section_metar_comps,
                  [id \in Range(section_metar_comps) |-> Unmatched(MetarById(id))],
                  valid_comps_prev, taf_comps, Comp(main), CopyId,
                  MetarsPerHour * section_length)

\* a METAR of the section comes with what another TAF left on it
MatchedBefore ==
    \E id \in Range(section_metar_comps) : MetarById(id).prob > 0

\* C22: match_section leaves the METARs, the components and the matches it
\* would leave had the METARs of the section never been matched, whatever
\* allocated probability, matches and matched components another TAF left on
\* them; the remainders and the plain table, made from what match_section
\* leaves, are then those of never-matched METARs too
C22_TableWhateverMatchedBefore ==
    [][MatchSectionCalled
          => /\ metar_comps' = [i \in 1..Len(metar_comps) |->
                                   IF metar_comps[i].id \in Range(section_metar_comps)
                                   THEN OnUnmatched.m[metar_comps[i].id]
                                   ELSE metar_comps[i]]
             /\ taf_comps' = [k \in 1..Len(taf_comps) |-> OnUnmatched.t[k]]
             /\ matchlog' = OnUnmatched.log]_vars

\* match_section has matched, for the second TAF of the batch, a section
\* holding a METAR of the hours it shares with the first, which was accepted:
\* the METAR came with its matches, its remainder and prob = 1
C22_Witness ==
    /\ Len(driver.attempted) = 1
    /\ driver.attempted[1].tafs_
    /\ taf_comps # <<>>
    /\ method = "rt" /\ pc = "section_matched"
    /\ matchlog # <<>>
    /\ \E id \in Range(section_metar_comps) : MetarById(id).issue_dt = 0

\* the TAFs main's loop has been through: those it is done with and, once
\* both methods have run on it, the one it stands at
Through ==
    IF pc = "next" THEN Append(driver.attempted, Attempted) ELSE driver.attempted

\* the number of rejections among them
RECURSIVE Rejections(_)
Rejections(attempted) ==
    IF attempted = <<>> THEN 0
    ELSE (IF Head(attempted).failed THEN 1 ELSE 0)
         + (IF Head(attempted).failed_uncertainty THEN 1 ELSE 0)
         + Rejections(Tail(attempted))

\* the rejections of the TAF the loop stands at before both methods have run
RejectedSoFar == IF pc # "next" /\ pc # "saved" /\ driver.failed THEN 1 ELSE 0

\* C21: in a batch every TAF is attempted for both tables whatever happened
\* to the TAFs before it, and ends in exactly one of the accepted and the
\* rejected list of each table; every rejection error raised put a TAF in a
\* rejected list and none stopped the loop; save.save gets, for each table,
\* the accepted TAFs in order and no rejected one
C21_BatchGoesOn ==
    /\ pc # "raised"
    /\ \A k \in 1..Len(Through) :
          /\ Through[k].tafs_ # Through[k].failed
          /\ Through[k].tafs_uncertainty_ # Through[k].failed_uncertainty
    /\ Len(driver.printed) = Rejections(Through) + RejectedSoFar
    /\ pc = "rejected" => err \in Caught
    /\ driver.saved.called <=> pc = "saved"
    /\ driver.saved.called
          => /\ Len(driver.attempted) = BatchSize
             /\ Range(driver.saved.tafs) = {k \in 1..BatchSize : ~driver.attempted[k].failed}
             /\ Range(driver.saved.tafs_uncertainty) =
                    {k \in 1..BatchSize : ~driver.attempted[k].failed_uncertainty}
             /\ \A i, j \in 1..Len(driver.saved.tafs) :
                    i < j => driver.saved.tafs[i] < driver.saved.tafs[j]

\* a batch whose first TAF was rejected for both tables and whose second
\* TAF was accepted for the plain table and rejected for the other: save.save
\* gets the second for the plain table and nothing for the other
C21_Witness ==
    /\ pc = "saved"
    /\ driver.attempted[1].failed /\ driver.attempted[1].failed_uncertainty
    /\ driver.attempted[2].tafs_ /\ driver.attempted[2].failed_uncertainty
    /\ driver.saved.tafs = <<2>>
    /\ driver.saved.tafs_uncertainty = <<>>
====
